---------------------------- MODULE Spec2Model ----------------------------
(***************************************************************************)
(* AES-128 with the ECB, CBC, CFB and CTR modes and PKCS#7 padding, as      *)
(* implemented in src/aes-128/src/main.rs.                                  *)
(*                                                                          *)
(* Byte arrays and vectors are TLA+ sequences, so element k of the Rust     *)
(* code (0-based) is element k + 1 here.  A u8 is a number in 0..255.       *)
(***************************************************************************)
EXTENDS Integers, Sequences, FiniteSets, TLC

VARIABLES
    harness,    \* the entry point that runs: "main", "block", "rounds", "pad", "sbox",
                \* "gf", "lib" or "nonce"
    pc,         \* position inside the entry point
    mode,       \* cli.mode
    decrypt,    \* cli.decrypt
    in_data,    \* text of the input file, as what parse_hex_data makes of it
    in_key,     \* text of the key file, as what parse_hex_data makes of it
    cli_iv,     \* cli.iv: << >> for None, << text >> for Some(text)
    data,       \* `data` of main / the block or buffer under test
    key,        \* `key` of main and of the block test
    iv,         \* `iv` of main: << >> for None, << array >> for Some(array)
    aes,        \* Aes.expanded_key; << >> before Aes::new
    chain,      \* prev_block / shift_register / counter of the running mode
    idx,        \* number of 16-byte chunks the running mode loop has done
    result,     \* "none" while running, then "Ok" or the AesError kind returned
    err_site,   \* history: the statement that returned the error
    nblk,       \* history: calls of encrypt_block / decrypt_block so far
    msg,        \* history: the bytes the first run started from
    arg,        \* history: the buffer the last padding call was given
    phase,      \* 1: first run; 2: the run that is fed the first run's output
    block_size, \* block_size argument of add_padding / of a cipher-modes function
    input,      \* the bytes a mode function was given (main), or its loop reads (library)
    output,     \* cipher-modes library: the Vec the loop extends, then the Ok value
    overflow_checks  \* whether the build panics on integer overflow (debug) or wraps

vars == <<harness, pc, mode, decrypt, in_data, in_key, cli_iv, data, key, iv,
          aes, chain, idx, result, err_site, nblk, msg, arg, phase, block_size,
          input, output, overflow_checks>>

-----------------------------------------------------------------------------
(* Constants of the program *)

BLOCK_SIZE == 16
KEY_SIZE == 16
NUM_ROUNDS == 10
EXPANDED_KEY_SIZE == 176

S_BOX == <<
     99, 124, 119, 123, 242, 107, 111, 197,  48,   1, 103,  43, 254, 215, 171, 118,
    202, 130, 201, 125, 250,  89,  71, 240, 173, 212, 162, 175, 156, 164, 114, 192,
    183, 253, 147,  38,  54,  63, 247, 204,  52, 165, 229, 241, 113, 216,  49,  21,
      4, 199,  35, 195,  24, 150,   5, 154,   7,  18, 128, 226, 235,  39, 178, 117,
      9, 131,  44,  26,  27, 110,  90, 160,  82,  59, 214, 179,  41, 227,  47, 132,
     83, 209,   0, 237,  32, 252, 177,  91, 106, 203, 190,  57,  74,  76,  88, 207,
    208, 239, 170, 251,  67,  77,  51, 133,  69, 249,   2, 127,  80,  60, 159, 168,
     81, 163,  64, 143, 146, 157,  56, 245, 188, 182, 218,  33,  16, 255, 243, 210,
    205,  12,  19, 236,  95, 151,  68,  23, 196, 167, 126,  61, 100,  93,  25, 115,
     96, 129,  79, 220,  34,  42, 144, 136,  70, 238, 184,  20, 222,  94,  11, 219,
    224,  50,  58,  10,  73,   6,  36,  92, 194, 211, 172,  98, 145, 149, 228, 121,
    231, 200,  55, 109, 141, 213,  78, 169, 108,  86, 244, 234, 101, 122, 174,   8,
    186, 120,  37,  46,  28, 166, 180, 198, 232, 221, 116,  31,  75, 189, 139, 138,
    112,  62, 181, 102,  72,   3, 246,  14,  97,  53,  87, 185, 134, 193,  29, 158,
    225, 248, 152,  17, 105, 217, 142, 148, 155,  30, 135, 233, 206,  85,  40, 223,
    140, 161, 137,  13, 191, 230,  66, 104,  65, 153,  45,  15, 176,  84, 187,  22 >>

\* The inverse table filled with the forward table.
INV_S_BOX_forward == S_BOX

INV_S_BOX == <<
     82,   9, 106, 213,  48,  54, 165,  56, 191,  64, 163, 158, 129, 243, 215, 251,
    124, 227,  57, 130, 155,  47, 255, 135,  52, 142,  67,  68, 196, 222, 233, 203,
     84, 123, 148,  50, 166, 194,  35,  61, 238,  76, 149,  11,  66, 250, 195,  78,
      8,  46, 161, 102,  40, 217,  36, 178, 118,  91, 162,  73, 109, 139, 209,  37,
    114, 248, 246, 100, 134, 104, 152,  22, 212, 164,  92, 204,  93, 101, 182, 146,
    108, 112,  72,  80, 253, 237, 185, 218,  94,  21,  70,  87, 167, 141, 157, 132,
    144, 216, 171,   0, 140, 188, 211,  10, 247, 228,  88,   5, 184, 179,  69,   6,
    208,  44,  30, 143, 202,  63,  15,   2, 193, 175, 189,   3,   1,  19, 138, 107,
     58, 145,  17,  65,  79, 103, 220, 234, 151, 242, 207, 206, 240, 180, 230, 115,
    150, 172, 116,  34, 231, 173,  53, 133, 226, 249,  55, 232,  28, 117, 223, 110,
     71, 241,  26, 113,  29,  41, 197, 137, 111, 183,  98,  14, 170,  24, 190,  27,
    252,  86,  62,  75, 198, 210, 121,  32, 154, 219, 192, 254, 120, 205,  90, 244,
     31, 221, 168,  51, 136,   7, 199,  49, 177,  18,  16,  89,  39, 128, 236,  95,
     96,  81, 127, 169,  25, 181,  74,  13,  45, 229, 122, 159, 147, 201, 156, 239,
    160, 224,  59,  77, 174,  42, 245, 176, 200, 235, 187,  60, 131,  83, 153,  97,
     23,  43,   4, 126, 186, 119, 214,  38, 225, 105,  20,  99,  85,  33,  12, 125 >>

RCON == << 0, 1, 2, 4, 8, 16, 32, 64, 128, 27, 54 >>

-----------------------------------------------------------------------------
(* u8 arithmetic *)

\* a ^ b on the low n bits, bit by bit.
RECURSIVE XorBits(_, _, _)
XorBits(a, b, n) ==
    IF n = 0 THEN 0
    ELSE ((a + b) % 2) + 2 * XorBits(a \div 2, b \div 2, n - 1)

\* a ^ b for every pair of 4-bit values: XorNibble[a + 1][b + 1] = a ^ b.
XorNibble ==
    [a \in 1..16 |-> [b \in 1..16 |-> XorBits(a - 1, b - 1, 4)] \o << >>] \o << >>

\* a ^ b on u8, the high and the low four bits apart.
Xor(a, b) ==
    16 * XorNibble[(a \div 16) + 1][(b \div 16) + 1] + XorNibble[(a % 16) + 1][(b % 16) + 1]

\* `a <<= 1` on u8: the bit shifted out of bit 7 is lost.
Shl1(a) == (a * 2) % 256

\* One pass of the loop of gf_mul with the high bit read after the shift.
gf_mul_iter_late_high_bit(res, a, b) ==
    LET res1 == IF b % 2 # 0 THEN Xor(res, a) ELSE res
        a1 == Shl1(a)
        high_bit == (a1 \div 128) % 2
        a2 == IF high_bit # 0 THEN Xor(a1, 27) ELSE a1
    IN [result |-> res1, a |-> a2, b |-> b \div 2]

\* One pass of the loop of Aes::gf_mul: what it leaves in result, a and b.
gf_mul_iter(res, a, b) ==
    LET res1 == IF b % 2 # 0 THEN Xor(res, a) ELSE res
        high_bit == (a \div 128) % 2
        a1 == Shl1(a)
        a2 == IF high_bit # 0 THEN Xor(a1, 27) ELSE a1
    IN [result |-> res1, a |-> a2, b |-> b \div 2]

\* Aes::gf_mul: 8 rounds of shift-and-conditional-XOR; n counts the rounds left.
RECURSIVE gf_mul_loop(_, _)
gf_mul_loop(s, n) ==
    IF n = 0 THEN s.result
    ELSE gf_mul_loop(gf_mul_iter(s.result, s.a, s.b), n - 1)

gf_mul(a, b) == gf_mul_loop([result |-> 0, a |-> a, b |-> b], 8)

-----------------------------------------------------------------------------
(* The 4 x 4 state: state[i][j] of the code is st[i + 1][j + 1] *)

\* A 4 x 4 matrix and a 16-byte array built element by element.  Appending the
\* empty sequence turns the function into a tuple: TLC then computes every
\* element once, here, and not each time the element is read.
Mat4(F(_, _)) ==
    [i \in 1..4 |-> [j \in 1..4 |-> F(i, j)] \o << >>] \o << >>

Arr16(F(_)) ==
    [k \in 1..16 |-> F(k)] \o << >>

\* Aes::bytes_to_state: state[i][j] = bytes[i + 4 * j]
bytes_to_state(bytes) ==
    LET F(i, j) == bytes[(i - 1) + 4 * (j - 1) + 1] IN Mat4(F)

\* Aes::state_to_bytes: bytes[i + 4 * j] = state[i][j]
state_to_bytes(st) ==
    LET F(k) == st[((k - 1) % 4) + 1][((k - 1) \div 4) + 1] IN Arr16(F)

sub_bytes(st) ==
    LET F(i, j) == S_BOX[st[i][j] + 1] IN Mat4(F)

inv_sub_bytes(st) ==
    LET F(i, j) == INV_S_BOX[st[i][j] + 1] IN Mat4(F)

\* Aes::shift_rows: row 1 one to the left, row 2 two, row 3 three.
shift_rows(st) ==
    << st[1],
       << st[2][2], st[2][3], st[2][4], st[2][1] >>,
       << st[3][3], st[3][4], st[3][1], st[3][2] >>,
       << st[4][4], st[4][1], st[4][2], st[4][3] >> >>

\* inv_shift_rows turning the rows to the left, as shift_rows does.
inv_shift_rows_left(st) ==
    << st[1],
       << st[2][2], st[2][3], st[2][4], st[2][1] >>,
       << st[3][3], st[3][4], st[3][1], st[3][2] >>,
       << st[4][4], st[4][1], st[4][2], st[4][3] >> >>

\* Aes::inv_shift_rows: row 1 one to the right, row 2 two, row 3 three.
inv_shift_rows(st) ==
    << st[1],
       << st[2][4], st[2][1], st[2][2], st[2][3] >>,
       << st[3][3], st[3][4], st[3][1], st[3][2] >>,
       << st[4][2], st[4][3], st[4][4], st[4][1] >> >>

Xor4(a, b, c, d) == Xor(Xor(Xor(a, b), c), d)

\* gf_mul(c, b) for the six constants c of the MixColumns matrices, b in
\* 0..255: GfMulTable[c][b + 1] = gf_mul(c, b), each entry computed by gf_mul.
GfMulTable ==
    [c \in {2, 3, 9, 11, 13, 14} |-> [k \in 1..256 |-> gf_mul(c, k - 1)]]

\* Self::gf_mul(c, b) as called by mix_columns and inv_mix_columns.
gf_mul_const(c, b) == GfMulTable[c][b + 1]

mix_columns(st) ==
    LET F(i, col) ==
          LET s0 == st[1][col]  s1 == st[2][col]  s2 == st[3][col]  s3 == st[4][col]
          IN CASE i = 1 -> Xor4(gf_mul_const(2, s0), gf_mul_const(3, s1), s2, s3)
               [] i = 2 -> Xor4(s0, gf_mul_const(2, s1), gf_mul_const(3, s2), s3)
               [] i = 3 -> Xor4(s0, s1, gf_mul_const(2, s2), gf_mul_const(3, s3))
               [] i = 4 -> Xor4(gf_mul_const(3, s0), s1, s2, gf_mul_const(2, s3))
    IN Mat4(F)

inv_mix_columns(st) ==
    LET F(i, col) ==
          LET s0 == st[1][col]  s1 == st[2][col]  s2 == st[3][col]  s3 == st[4][col]
          IN CASE i = 1 -> Xor4(gf_mul_const(14, s0), gf_mul_const(11, s1),
                                gf_mul_const(13, s2), gf_mul_const(9, s3))
               [] i = 2 -> Xor4(gf_mul_const(9, s0), gf_mul_const(14, s1),
                                gf_mul_const(11, s2), gf_mul_const(13, s3))
               [] i = 3 -> Xor4(gf_mul_const(13, s0), gf_mul_const(9, s1),
                                gf_mul_const(14, s2), gf_mul_const(11, s3))
               [] i = 4 -> Xor4(gf_mul_const(11, s0), gf_mul_const(13, s1),
                                gf_mul_const(9, s2), gf_mul_const(14, s3))
    IN Mat4(F)

\* add_round_key reading the round key row by row.
add_round_key_row_major(w, st, round) ==
    LET round_key_start == round * BLOCK_SIZE
        F(i, j) == Xor(st[i][j], w[round_key_start + 4 * (i - 1) + (j - 1) + 1])
    IN Mat4(F)

\* Aes::add_round_key: state[i][j] ^= expanded_key[round * 16 + i + 4 * j]
add_round_key(w, st, round) ==
    LET round_key_start == round * BLOCK_SIZE
        F(i, j) == Xor(st[i][j], w[round_key_start + (i - 1) + 4 * (j - 1) + 1])
    IN Mat4(F)

-----------------------------------------------------------------------------
(* Key expansion *)

\* key_expansion_step without the rotation of the word (RotWord left out).
key_expansion_step_no_rot(w, i) ==
    LET temp0 == << w[i - 4 + 1], w[i - 3 + 1], w[i - 2 + 1], w[i - 1 + 1] >>
        sub   == << S_BOX[temp0[1] + 1], S_BOX[temp0[2] + 1],
                    S_BOX[temp0[3] + 1], S_BOX[temp0[4] + 1] >>
        temp  == IF i % KEY_SIZE = 0
                 THEN << Xor(sub[1], RCON[(i \div KEY_SIZE) + 1]), sub[2], sub[3], sub[4] >>
                 ELSE temp0
    IN [w EXCEPT ![i + 0 + 1] = Xor(w[i + 0 - KEY_SIZE + 1], temp[1]),
                 ![i + 1 + 1] = Xor(w[i + 1 - KEY_SIZE + 1], temp[2]),
                 ![i + 2 + 1] = Xor(w[i + 2 - KEY_SIZE + 1], temp[3]),
                 ![i + 3 + 1] = Xor(w[i + 3 - KEY_SIZE + 1], temp[4])]

\* One pass of the loop body of Aes::key_expansion for byte index i (0-based).
key_expansion_step(w, i) ==
    LET temp0 == << w[i - 4 + 1], w[i - 3 + 1], w[i - 2 + 1], w[i - 1 + 1] >>
        rot   == << temp0[2], temp0[3], temp0[4], temp0[1] >>
        sub   == << S_BOX[rot[1] + 1], S_BOX[rot[2] + 1],
                    S_BOX[rot[3] + 1], S_BOX[rot[4] + 1] >>
        temp  == IF i % KEY_SIZE = 0
                 THEN << Xor(sub[1], RCON[(i \div KEY_SIZE) + 1]), sub[2], sub[3], sub[4] >>
                 ELSE temp0
    IN [w EXCEPT ![i + 0 + 1] = Xor(w[i + 0 - KEY_SIZE + 1], temp[1]),
                 ![i + 1 + 1] = Xor(w[i + 1 - KEY_SIZE + 1], temp[2]),
                 ![i + 2 + 1] = Xor(w[i + 2 - KEY_SIZE + 1], temp[3]),
                 ![i + 3 + 1] = Xor(w[i + 3 - KEY_SIZE + 1], temp[4])]

\* The loop of key_expansion ending one round key early.
RECURSIVE key_expansion_loop_one_short(_, _)
key_expansion_loop_one_short(w, i) ==
    IF i >= EXPANDED_KEY_SIZE - KEY_SIZE THEN w
    ELSE key_expansion_loop_one_short(key_expansion_step(w, i), i + 4)

RECURSIVE key_expansion_loop(_, _)
key_expansion_loop(w, i) ==
    IF i >= EXPANDED_KEY_SIZE THEN w
    ELSE key_expansion_loop(key_expansion_step(w, i), i + 4)

\* Aes::key_expansion on the zeroed array of Aes::new.
key_expansion(k16) ==
    LET zero == [k \in 1..EXPANDED_KEY_SIZE |-> 0]
        w0   == [k \in 1..EXPANDED_KEY_SIZE |-> IF k <= KEY_SIZE THEN k16[k] ELSE zero[k]]
    IN key_expansion_loop(w0, KEY_SIZE)

\* The indices into expanded_key that pass i of the loop of key_expansion
\* reads and writes, and its index into RCON.
key_expansion_indices(i) ==
    {i - 4, i - 3, i - 2, i - 1}
    \cup { i + j : j \in 0..3 } \cup { i + j - KEY_SIZE : j \in 0..3 }

key_expansion_rcon_indices(i) ==
    IF i % KEY_SIZE = 0 THEN { i \div KEY_SIZE } ELSE {}

\* The index into expanded_key that add_round_key pairs with state[i][j].
add_round_key_index(round, i, j) == round * BLOCK_SIZE + i + 4 * j

\* Aes::new
Aes_new(k16) == key_expansion(k16)

-----------------------------------------------------------------------------
(* The block transforms, as the sequence of steps the code runs *)

RECURSIVE EncryptRounds(_)
EncryptRounds(round) ==
    IF round >= NUM_ROUNDS THEN << >>
    ELSE << <<"sub_bytes", round>>, <<"shift_rows", round>>,
            <<"mix_columns", round>>, <<"add_round_key", round>> >>
         \o EncryptRounds(round + 1)

\* encrypt_block with MixColumns in the final round as well.
EncryptSchedule_final_mix ==
    << <<"add_round_key", 0>> >>
    \o EncryptRounds(1)
    \o << <<"sub_bytes", NUM_ROUNDS>>, <<"shift_rows", NUM_ROUNDS>>,
          <<"mix_columns", NUM_ROUNDS>>, <<"add_round_key", NUM_ROUNDS>> >>

\* The calls of Aes::encrypt_block between bytes_to_state and state_to_bytes.
EncryptSchedule ==
    << <<"add_round_key", 0>> >>
    \o EncryptRounds(1)
    \o << <<"sub_bytes", NUM_ROUNDS>>, <<"shift_rows", NUM_ROUNDS>>,
          <<"add_round_key", NUM_ROUNDS>> >>

\* The main rounds of decrypt_block with InvMixColumns before AddRoundKey.
RECURSIVE DecryptRounds_mix_first(_)
DecryptRounds_mix_first(round) ==
    IF round < 1 THEN << >>
    ELSE << <<"inv_mix_columns", round>>, <<"add_round_key", round>>,
            <<"inv_shift_rows", round>>, <<"inv_sub_bytes", round>> >>
         \o DecryptRounds_mix_first(round - 1)

RECURSIVE DecryptRounds(_)
DecryptRounds(round) ==
    IF round < 1 THEN << >>
    ELSE << <<"add_round_key", round>>, <<"inv_mix_columns", round>>,
            <<"inv_shift_rows", round>>, <<"inv_sub_bytes", round>> >>
         \o DecryptRounds(round - 1)

\* The calls of Aes::decrypt_block between bytes_to_state and state_to_bytes.
DecryptSchedule ==
    << <<"add_round_key", NUM_ROUNDS>>, <<"inv_shift_rows", NUM_ROUNDS>>,
       <<"inv_sub_bytes", NUM_ROUNDS>> >>
    \o DecryptRounds(NUM_ROUNDS - 1)
    \o << <<"add_round_key", 0>> >>

ApplyStep(w, st, step) ==
    CASE step[1] = "add_round_key"   -> add_round_key(w, st, step[2])
      [] step[1] = "sub_bytes"       -> sub_bytes(st)
      [] step[1] = "shift_rows"      -> shift_rows(st)
      [] step[1] = "mix_columns"     -> mix_columns(st)
      [] step[1] = "inv_sub_bytes"   -> inv_sub_bytes(st)
      [] step[1] = "inv_shift_rows"  -> inv_shift_rows(st)
      [] step[1] = "inv_mix_columns" -> inv_mix_columns(st)

\* The steps sched[k..] applied in order.  The test on the four rows makes TLC
\* compute each step's state before it goes on to the next step.
RECURSIVE RunSteps(_, _, _, _)
RunSteps(w, st, sched, k) ==
    IF k > Len(sched) THEN st
    ELSE LET st1 == ApplyStep(w, st, sched[k])
         IN IF Len(st1) = 4 THEN RunSteps(w, st1, sched, k + 1) ELSE st1

\* Aes::encrypt_block and Aes::decrypt_block; w is self.expanded_key.
encrypt_block(w, block) ==
    state_to_bytes(RunSteps(w, bytes_to_state(block), EncryptSchedule, 1))

decrypt_block(w, block) ==
    state_to_bytes(RunSteps(w, bytes_to_state(block), DecryptSchedule, 1))

-----------------------------------------------------------------------------
(* Modes of operation: the body of each function's loop over                *)
(* data.chunks_exact_mut(BLOCK_SIZE), as a function of the chunk and of the *)
(* value carried from one chunk to the next.                                *)

\* a[i] ^ b[i] for i in 0..BLOCK_SIZE
XorBlock(a, b) ==
    LET F(k) == Xor(a[k], b[k]) IN Arr16(F)

\* ecb_encrypt that chains each chunk with the block before it, as CBC does.
ecb_encrypt_chunk_chained(w, chunk, carried) ==
    LET block == encrypt_block(w, IF carried = << >> THEN chunk
                                  ELSE XorBlock(chunk, carried))
    IN [chunk |-> block, chain |-> block]

\* ecb_encrypt / ecb_decrypt: nothing is carried between chunks.
ecb_encrypt_chunk(w, chunk, carried) ==
    [chunk |-> encrypt_block(w, chunk), chain |-> carried]

\* ecb_decrypt that XORs each decrypted chunk with the chunk before it.
ecb_decrypt_chunk_chained(w, chunk, carried) ==
    LET block == decrypt_block(w, chunk)
    IN [chunk |-> IF carried = << >> THEN block ELSE XorBlock(block, carried),
        chain |-> chunk]

ecb_decrypt_chunk(w, chunk, carried) ==
    [chunk |-> decrypt_block(w, chunk), chain |-> carried]

\* cbc_encrypt that never updates prev_block.
cbc_encrypt_chunk_keep_iv(w, chunk, prev_block) ==
    LET block == encrypt_block(w, XorBlock(chunk, prev_block))
    IN [chunk |-> block, chain |-> prev_block]

\* cbc_encrypt: chunk ^= prev_block; encrypt; prev_block = block
cbc_encrypt_chunk(w, chunk, prev_block) ==
    LET block == encrypt_block(w, XorBlock(chunk, prev_block))
    IN [chunk |-> block, chain |-> block]

\* cbc_decrypt carrying the recovered plaintext instead of the ciphertext block.
cbc_decrypt_chunk_carry_plain(w, chunk, prev_block) ==
    LET block == XorBlock(decrypt_block(w, chunk), prev_block)
    IN [chunk |-> block, chain |-> block]

\* cbc_decrypt: current_cipher = chunk; decrypt; block ^= prev_block;
\* prev_block = current_cipher
cbc_decrypt_chunk(w, chunk, prev_block) ==
    LET current_cipher == chunk
        block == XorBlock(decrypt_block(w, chunk), prev_block)
    IN [chunk |-> block, chain |-> current_cipher]

\* cfb_encrypt: keystream = E(shift_register); chunk ^= keystream;
\* shift_register = chunk
cfb_encrypt_chunk(w, chunk, shift_register) ==
    LET keystream == encrypt_block(w, shift_register)
        c == XorBlock(chunk, keystream)
    IN [chunk |-> c, chain |-> c]

\* cfb_decrypt with the inverse block transform for the keystream.
cfb_decrypt_chunk_inverse(w, chunk, shift_register) ==
    LET keystream == decrypt_block(w, shift_register)
        current_cipher == chunk
    IN [chunk |-> XorBlock(chunk, keystream), chain |-> current_cipher]

\* cfb_decrypt: keystream = E(shift_register); current_cipher = chunk;
\* chunk ^= keystream; shift_register = current_cipher
cfb_decrypt_chunk(w, chunk, shift_register) ==
    LET keystream == encrypt_block(w, shift_register)
        current_cipher == chunk
    IN [chunk |-> XorBlock(chunk, keystream), chain |-> current_cipher]

(* A u128 is held as its 16 base-256 digits, least significant first:       *)
(* digit k (1-based) has weight 256^(k-1).                                   *)

\* u128::from_be_bytes: the first byte is the most significant digit.
u128_from_be_bytes(bytes) ==
    LET F(k) == bytes[17 - k] IN Arr16(F)

\* u128::to_be_bytes
u128_to_be_bytes(n) ==
    LET F(k) == n[17 - k] IN Arr16(F)

\* Digits k.. of n plus the carry c; the carry out of digit 16 is dropped.
RECURSIVE add_digits(_, _, _)
add_digits(n, k, c) ==
    IF k > 16 THEN << >>
    ELSE << (n[k] + c) % 256 >> \o add_digits(n, k + 1, (n[k] + c) \div 256)

\* saturating_add(1) in the place of wrapping_add(1): the largest value stays.
saturating_add_1(n) ==
    IF \A k \in 1..16 : n[k] = 255 THEN n ELSE add_digits(n, 1, 1)

\* u128::wrapping_add(self, 1)
wrapping_add_1(n) == add_digits(n, 1, 1)

\* ctr_encrypt_decrypt: counter_block = E(counter.to_be_bytes());
\* chunk ^= counter_block; counter = counter.wrapping_add(1)
ctr_chunk(w, chunk, counter) ==
    LET counter_block == encrypt_block(w, u128_to_be_bytes(counter))
    IN [chunk |-> XorBlock(chunk, counter_block), chain |-> wrapping_add_1(counter)]

\* What each mode function carries before its first chunk.
cbc_init(iv16) == iv16
cfb_init(iv16) == iv16
ctr_init(nonce) == u128_from_be_bytes(nonce)

\* data.chunks_exact_mut(BLOCK_SIZE): the number of whole chunks, chunk i
\* (0-based), and the data with chunk i overwritten.
NumChunks(d) == Len(d) \div BLOCK_SIZE
Chunk(d, i) == SubSeq(d, i * BLOCK_SIZE + 1, (i + 1) * BLOCK_SIZE)
PutChunk(d, i, c) ==
    SubSeq(d, 1, i * BLOCK_SIZE) \o c \o SubSeq(d, (i + 1) * BLOCK_SIZE + 1, Len(d))

-----------------------------------------------------------------------------
(* Padding and the data handling of main *)

\* n copies of the byte b
Repeat(b, n) == [k \in 1..n |-> b]

\* add_padding that appends nothing to data that is already aligned.
add_padding_no_full_block(d, bs) ==
    LET padding_len == (bs - (Len(d) % bs)) % bs
        padding_byte == padding_len % 256
    IN d \o Repeat(padding_byte, padding_len)

\* add_padding(data, block_size); `padding_len as u8` keeps the low 8 bits.
add_padding(d, bs) ==
    LET padding_len == bs - (Len(d) % bs)
        padding_byte == padding_len % 256
    IN d \o Repeat(padding_byte, padding_len)

\* remove_padding with `padding_len >= BLOCK_SIZE` in the place of `>`.
remove_padding_no_full_block(d) ==
    IF Len(d) = 0
    THEN [result |-> "InvalidBlockSize", data |-> d]
    ELSE LET padding_len == d[Len(d)]
             data_len == Len(d)
         IN IF padding_len = 0 \/ padding_len >= BLOCK_SIZE \/ padding_len > Len(d)
            THEN [result |-> "InvalidBlockSize", data |-> d]
            ELSE IF \E k \in (data_len - padding_len + 1)..data_len :
                        d[k] # padding_len % 256
                 THEN [result |-> "InvalidBlockSize", data |-> d]
                 ELSE [result |-> "Ok", data |-> SubSeq(d, 1, data_len - padding_len)]

\* remove_padding without the loop over the padding bytes.
remove_padding_last_byte_only(d) ==
    IF Len(d) = 0
    THEN [result |-> "InvalidBlockSize", data |-> d]
    ELSE LET padding_len == d[Len(d)]
             data_len == Len(d)
         IN IF padding_len = 0 \/ padding_len > BLOCK_SIZE \/ padding_len > Len(d)
            THEN [result |-> "InvalidBlockSize", data |-> d]
            ELSE [result |-> "Ok", data |-> SubSeq(d, 1, data_len - padding_len)]

\* remove_padding that pops the last byte before it checks the others.
remove_padding_pops_first(d) ==
    IF Len(d) = 0
    THEN [result |-> "InvalidBlockSize", data |-> d]
    ELSE LET padding_len == d[Len(d)]
             data_len == Len(d)
         IN IF padding_len = 0 \/ padding_len > BLOCK_SIZE \/ padding_len > Len(d)
            THEN [result |-> "InvalidBlockSize", data |-> d]
            ELSE IF \E k \in (data_len - padding_len + 1)..data_len :
                        d[k] # padding_len % 256
                 THEN [result |-> "InvalidBlockSize",
                       data |-> SubSeq(d, 1, data_len - 1)]
                 ELSE [result |-> "Ok", data |-> SubSeq(d, 1, data_len - padding_len)]

\* remove_padding(data): the Result and the vector it leaves behind.
remove_padding(d) ==
    IF Len(d) = 0
    THEN [result |-> "InvalidBlockSize", data |-> d]
    ELSE LET padding_len == d[Len(d)]
             data_len == Len(d)
         IN IF padding_len = 0 \/ padding_len > BLOCK_SIZE \/ padding_len > Len(d)
            THEN [result |-> "InvalidBlockSize", data |-> d]
            ELSE IF \E k \in (data_len - padding_len + 1)..data_len :
                        d[k] # padding_len % 256
                 THEN [result |-> "InvalidBlockSize", data |-> d]
                 ELSE [result |-> "Ok", data |-> SubSeq(d, 1, data_len - padding_len)]

\* main without the resize: the data goes to the mode function as it is.
resize_to_blocks_skipped(d) == d

\* main, CFB and CTR: data.resize((len + 15) / 16 * 16, 0) when len % 16 != 0
resize_to_blocks(d) ==
    IF Len(d) % BLOCK_SIZE # 0
    THEN d \o Repeat(0, ((Len(d) + BLOCK_SIZE - 1) \div BLOCK_SIZE) * BLOCK_SIZE - Len(d))
    ELSE d

\* parse_hex_data on a text: a text is held as what hex::decode makes of it,
\* [ok |-> FALSE] for a text that is not hexadecimal.
parse_hex_data(text) ==
    IF text.ok THEN [result |-> "Ok", bytes |-> text.bytes]
    ELSE [result |-> "InvalidHexData", bytes |-> << >>]

\* The match of lines 624-636 with a zero IV in the place of MissingIv.
parse_iv_default_zero(m, opt_iv) ==
    IF m = "ecb" THEN [result |-> "Ok", iv |-> << >>]
    ELSE IF opt_iv = << >> THEN [result |-> "Ok", iv |-> << Repeat(0, BLOCK_SIZE) >>]
    ELSE LET iv_bytes == parse_hex_data(opt_iv[1])
         IN IF iv_bytes.result # "Ok"
            THEN [result |-> iv_bytes.result, iv |-> << >>]
            ELSE IF Len(iv_bytes.bytes) # BLOCK_SIZE
                 THEN [result |-> "InvalidBlockSize", iv |-> << >>]
                 ELSE [result |-> "Ok", iv |-> << iv_bytes.bytes >>]

\* main, lines 624-636: the local `iv` from cli.mode and cli.iv.
parse_iv(m, opt_iv) ==
    IF m = "ecb" THEN [result |-> "Ok", iv |-> << >>]
    ELSE IF opt_iv = << >> THEN [result |-> "MissingIv", iv |-> << >>]
    ELSE LET iv_bytes == parse_hex_data(opt_iv[1])
         IN IF iv_bytes.result # "Ok"
            THEN [result |-> iv_bytes.result, iv |-> << >>]
            ELSE IF Len(iv_bytes.bytes) # BLOCK_SIZE
                 THEN [result |-> "InvalidBlockSize", iv |-> << >>]
                 ELSE [result |-> "Ok", iv |-> << iv_bytes.bytes >>]

-----------------------------------------------------------------------------
(* Inputs the model draws from *)

MaxBlocks == 1      \* main: messages of up to MaxBlocks whole blocks plus 15 bytes
NumMsgSeeds == 2    \* main: byte patterns per message length
NumSeeds == 3       \* block test: byte patterns for keys and blocks
MaxShort == 3       \* padding test: every buffer over PadBytes up to this length
MaxPadLen == 33     \* padding test: patterned buffers of every length up to this
MaxGfSecond == 15   \* gf_mul test: every second factor up to this

\* n bytes that differ from seed to seed and from place to place
Pattern(seed, n) == [k \in 1..n |-> (seed + (k - 1) * (2 * seed + 1)) % 256]
PatternSeed(s) == (s * 85 + 3) % 256

\* The vectors of test_aes_encrypt_decrypt
FipsKey == << 43, 126, 21, 22, 40, 174, 210, 166, 171, 247, 21, 136, 9, 207, 79, 60 >>
FipsPlain == << 50, 67, 246, 168, 136, 90, 48, 141, 49, 49, 152, 162, 224, 55, 7, 52 >>
FipsCipher == << 57, 37, 132, 29, 2, 220, 9, 251, 220, 17, 133, 151, 25, 106, 11, 50 >>

Text(bytes) == [ok |-> TRUE, bytes |-> bytes]
BadText == [ok |-> FALSE, bytes |-> << >>]

Modes == {"ecb", "cbc", "cfb", "ctr"}

MainMessages ==
    { Pattern(PatternSeed(s), BLOCK_SIZE * b + r) :
        s \in 1..NumMsgSeeds, b \in 0..MaxBlocks, r \in {0, 1, BLOCK_SIZE - 1} }

\* Ciphertexts whose ECB decryption under FipsKey ends in padding that is not
\* valid: a last byte of 0, a last byte of 17, and a last byte of 2 after a 3.
TamperedPlain ==
    { Pattern(PatternSeed(1), BLOCK_SIZE - 1) \o << 0 >>,
      Pattern(PatternSeed(1), BLOCK_SIZE - 1) \o << BLOCK_SIZE + 1 >>,
      Pattern(PatternSeed(1), BLOCK_SIZE - 2) \o << 3, 2 >> }

TamperedCiphertexts ==
    { encrypt_block(Aes_new(FipsKey), p) : p \in TamperedPlain }

\* Messages with equal blocks: one block of 16s, which add_padding follows
\* with another block of 16s, and the FIPS-197 plaintext twice.
RepeatingMessages ==
    { Repeat(BLOCK_SIZE, BLOCK_SIZE), FipsPlain \o FipsPlain }

\* A message of three whole blocks, all different.
LongMessages == { Pattern(PatternSeed(1), 3 * BLOCK_SIZE) }

MainData ==
    { Text(m) : m \in MainMessages \cup TamperedCiphertexts \cup RepeatingMessages
                     \cup LongMessages }
    \cup { BadText }

MainKeys ==
    { Text(FipsKey), Text(Pattern(PatternSeed(1), KEY_SIZE)),
      Text(Pattern(PatternSeed(2), KEY_SIZE - 1)),
      Text(Pattern(PatternSeed(2), KEY_SIZE + 1)), BadText }

\* All ones is the largest counter; the second nonce carries out of its last byte.
MainIvs ==
    { << >>, << Text(Repeat(255, BLOCK_SIZE)) >>,
      << Text(Repeat(0, BLOCK_SIZE - 1) \o << 255 >>) >>,
      << Text(Pattern(PatternSeed(4), BLOCK_SIZE)) >>,
      << Text(Pattern(PatternSeed(4), BLOCK_SIZE - 1)) >>, << BadText >> }

-----------------------------------------------------------------------------
(* main (lines 602-711), one run of the program; reading and writing the    *)
(* files is left out, a run starts from the three texts it was given.       *)

ModeFunctions ==
    {"ecb_encrypt", "ecb_decrypt", "cbc_encrypt", "cbc_decrypt",
     "cfb_encrypt", "cfb_decrypt", "ctr_encrypt_decrypt"}

InitMain ==
    /\ overflow_checks = TRUE
    /\ harness = "main"
    /\ pc = "load_data"
    /\ mode \in Modes
    /\ decrypt \in BOOLEAN
    /\ in_data \in MainData
    /\ in_key \in MainKeys
    /\ cli_iv \in MainIvs
    /\ data = << >>
    /\ key = << >>
    /\ iv = << >>
    /\ aes = << >>
    /\ chain = << >>
    /\ idx = 0
    /\ result = "none"
    /\ err_site = "none"
    /\ nblk = 0
    /\ msg = in_data.bytes
    /\ arg = << >>
    /\ phase = 1
    /\ block_size = BLOCK_SIZE
    /\ input = << >> /\ output = << >>

\* return Err(kind) out of main
Fail(kind, site) ==
    /\ pc' = "done"
    /\ result' = kind
    /\ err_site' = site

\* let mut data = parse_hex_data(&input_data)?;
LoadData ==
    /\ harness = "main" /\ pc = "load_data"
    /\ LET r == parse_hex_data(in_data)
       IN IF r.result # "Ok"
          THEN Fail(r.result, "parse_data") /\ UNCHANGED data
          ELSE data' = r.bytes /\ pc' = "load_key" /\ UNCHANGED <<result, err_site>>
    /\ UNCHANGED <<harness, overflow_checks,
                   mode, decrypt, in_data, in_key, cli_iv, key, iv, aes,
                   chain, idx, nblk, msg, arg, phase, block_size, input, output>>

\* LoadKey with `key_bytes.len() < KEY_SIZE` in the place of `!=`.
LoadKey_rejects_short_only ==
    /\ harness = "main" /\ pc = "load_key"
    /\ LET key_bytes == parse_hex_data(in_key)
       IN IF key_bytes.result # "Ok"
          THEN Fail(key_bytes.result, "parse_key") /\ UNCHANGED key
          ELSE IF Len(key_bytes.bytes) < KEY_SIZE
               THEN Fail("InvalidKeySize", "key_size") /\ UNCHANGED key
               ELSE key' = key_bytes.bytes /\ pc' = "load_iv"
                    /\ UNCHANGED <<result, err_site>>
    /\ UNCHANGED <<harness, overflow_checks,
                   mode, decrypt, in_data, in_key, cli_iv, data, iv, aes,
                   chain, idx, nblk, msg, arg, phase, block_size, input, output>>

\* key_bytes = parse_hex_data(&key_data)?; the length check; key.copy_from_slice
LoadKey ==
    /\ harness = "main" /\ pc = "load_key"
    /\ LET key_bytes == parse_hex_data(in_key)
       IN IF key_bytes.result # "Ok"
          THEN Fail(key_bytes.result, "parse_key") /\ UNCHANGED key
          ELSE IF Len(key_bytes.bytes) # KEY_SIZE
               THEN Fail("InvalidKeySize", "key_size") /\ UNCHANGED key
               ELSE key' = key_bytes.bytes /\ pc' = "load_iv"
                    /\ UNCHANGED <<result, err_site>>
    /\ UNCHANGED <<harness, overflow_checks,
                   mode, decrypt, in_data, in_key, cli_iv, data, iv, aes,
                   chain, idx, nblk, msg, arg, phase, block_size, input, output>>

\* let iv = match &cli.mode { ... };
LoadIv ==
    /\ harness = "main" /\ pc = "load_iv"
    /\ LET r == parse_iv(mode, cli_iv)
       IN IF r.result # "Ok"
          THEN Fail(r.result, "parse_iv") /\ UNCHANGED iv
          ELSE iv' = r.iv /\ pc' = "new" /\ UNCHANGED <<result, err_site>>
    /\ UNCHANGED <<harness, overflow_checks,
                   mode, decrypt, in_data, in_key, cli_iv, data, key, aes,
                   chain, idx, nblk, msg, arg, phase, block_size, input, output>>

\* let aes = Aes::new(&key);
NewAes ==
    /\ harness = "main" /\ pc = "new"
    /\ aes' = Aes_new(key)
    /\ pc' = "prepare"
    /\ UNCHANGED <<harness, overflow_checks,
                   mode, decrypt, in_data, in_key, cli_iv, data, key, iv,
                   chain, idx, result, err_site, nblk, msg, arg, phase, block_size, input, output>>

\* ECB and CBC, encryption: add_padding, the length check, then the mode function.
PrepareEncryptPadded ==
    /\ harness = "main" /\ pc = "prepare"
    /\ mode \in {"ecb", "cbc"} /\ ~decrypt
    /\ arg' = data
    /\ LET d == add_padding(data, BLOCK_SIZE)
       IN /\ data' = d
          /\ input' = d
          /\ IF Len(d) % BLOCK_SIZE # 0
             THEN Fail("InvalidBlockSize", "block_size") /\ UNCHANGED <<chain, idx>>
             ELSE /\ pc' = IF mode = "ecb" THEN "ecb_encrypt" ELSE "cbc_encrypt"
                  /\ chain' = IF mode = "ecb" THEN << >> ELSE cbc_init(iv[1])
                  /\ idx' = 0
                  /\ UNCHANGED <<result, err_site>>
    /\ UNCHANGED <<harness, overflow_checks,
                   mode, decrypt, in_data, in_key, cli_iv, key, iv, aes,
                   nblk, msg, phase, block_size, output>>

\* PrepareDecryptPadded without the length check.
PrepareDecryptPadded_unchecked ==
    /\ harness = "main" /\ pc = "prepare"
    /\ mode \in {"ecb", "cbc"} /\ decrypt
    /\ pc' = IF mode = "ecb" THEN "ecb_decrypt" ELSE "cbc_decrypt"
    /\ chain' = IF mode = "ecb" THEN << >> ELSE cbc_init(iv[1])
    /\ idx' = 0
    /\ input' = data
    /\ UNCHANGED <<result, err_site>>
    /\ UNCHANGED <<harness, overflow_checks,
                   mode, decrypt, in_data, in_key, cli_iv, data, key, iv,
                   aes, nblk, msg, arg, phase, block_size, output>>

\* ECB and CBC, decryption: the length check, then the mode function.
PrepareDecryptPadded ==
    /\ harness = "main" /\ pc = "prepare"
    /\ mode \in {"ecb", "cbc"} /\ decrypt
    /\ input' = data
    /\ IF Len(data) % BLOCK_SIZE # 0
       THEN Fail("InvalidBlockSize", "block_size") /\ UNCHANGED <<chain, idx>>
       ELSE /\ pc' = IF mode = "ecb" THEN "ecb_decrypt" ELSE "cbc_decrypt"
            /\ chain' = IF mode = "ecb" THEN << >> ELSE cbc_init(iv[1])
            /\ idx' = 0
            /\ UNCHANGED <<result, err_site>>
    /\ UNCHANGED <<harness, overflow_checks,
                   mode, decrypt, in_data, in_key, cli_iv, data, key, iv,
                   aes, nblk, msg, arg, phase, block_size, output>>

\* CFB and CTR: data.resize to whole blocks, then the mode function.
PrepareStream ==
    /\ harness = "main" /\ pc = "prepare"
    /\ mode \in {"cfb", "ctr"}
    /\ data' = resize_to_blocks(data)
    /\ input' = resize_to_blocks(data)
    /\ pc' = IF mode = "ctr" THEN "ctr_encrypt_decrypt"
             ELSE IF decrypt THEN "cfb_decrypt" ELSE "cfb_encrypt"
    /\ chain' = IF mode = "ctr" THEN ctr_init(iv[1]) ELSE cfb_init(iv[1])
    /\ idx' = 0
    /\ UNCHANGED <<harness, overflow_checks,
                   mode, decrypt, in_data, in_key, cli_iv, key, iv, aes,
                   result, err_site, nblk, msg, arg, phase, block_size, output>>

\* The loop body of mode function f on the chunk and the carried value.
ChunkStep(f, w, chunk, carried) ==
    CASE f = "ecb_encrypt" -> ecb_encrypt_chunk(w, chunk, carried)
      [] f = "ecb_decrypt" -> ecb_decrypt_chunk(w, chunk, carried)
      [] f = "cbc_encrypt" -> cbc_encrypt_chunk(w, chunk, carried)
      [] f = "cbc_decrypt" -> cbc_decrypt_chunk(w, chunk, carried)
      [] f = "cfb_encrypt" -> cfb_encrypt_chunk(w, chunk, carried)
      [] f = "cfb_decrypt" -> cfb_decrypt_chunk(w, chunk, carried)
      [] f = "ctr_encrypt_decrypt" -> ctr_chunk(w, chunk, carried)

\* The loop pass of a mode function that chains in the caller's iv itself.
ModeStep_chains_in_iv(f) ==
    /\ harness = "main" /\ pc = f
    /\ idx < NumChunks(data)
    /\ LET r == ChunkStep(f, aes, Chunk(data, idx), chain)
       IN /\ data' = PutChunk(data, idx, r.chunk)
          /\ chain' = r.chain
          /\ iv' = IF iv = << >> THEN iv ELSE << r.chunk >>
    /\ idx' = idx + 1
    /\ nblk' = nblk + 1
    /\ UNCHANGED <<harness, overflow_checks,
                   pc, mode, decrypt, in_data, in_key, cli_iv, key, aes,
                   result, err_site, msg, arg, phase, block_size, input, output>>

\* One pass of the loop of mode function f: chunk idx is transformed in place.
ModeStep(f) ==
    /\ harness = "main" /\ pc = f
    /\ idx < NumChunks(data)
    /\ LET r == ChunkStep(f, aes, Chunk(data, idx), chain)
       IN /\ data' = PutChunk(data, idx, r.chunk)
          /\ chain' = r.chain
    /\ idx' = idx + 1
    /\ nblk' = nblk + 1
    /\ UNCHANGED <<harness, overflow_checks,
                   pc, mode, decrypt, in_data, in_key, cli_iv, key, iv, aes,
                   result, err_site, msg, arg, phase, block_size, input, output>>

EcbEncrypt == ModeStep("ecb_encrypt")
EcbDecrypt == ModeStep("ecb_decrypt")
CbcEncrypt == ModeStep("cbc_encrypt")
CbcDecrypt == ModeStep("cbc_decrypt")
CfbEncrypt == ModeStep("cfb_encrypt")
CfbDecrypt == ModeStep("cfb_decrypt")
CtrEncryptDecrypt == ModeStep("ctr_encrypt_decrypt")

\* The mode function has no chunk left and returns to main.
ModeReturn ==
    /\ harness = "main" /\ pc \in ModeFunctions
    /\ idx = NumChunks(data)
    /\ pc' = IF pc \in {"ecb_decrypt", "cbc_decrypt"} THEN "remove_padding" ELSE "write"
    /\ UNCHANGED <<harness, overflow_checks,
                   mode, decrypt, in_data, in_key, cli_iv, data, key, iv, aes,
                   chain, idx, result, err_site, nblk, msg, arg, phase, block_size, input, output>>

\* remove_padding(&mut data)?;
RemovePadding ==
    /\ harness = "main" /\ pc = "remove_padding"
    /\ arg' = data
    /\ LET r == remove_padding(data)
       IN /\ data' = r.data
          /\ IF r.result # "Ok"
             THEN Fail(r.result, "remove_padding")
             ELSE pc' = "write" /\ UNCHANGED <<result, err_site>>
    /\ UNCHANGED <<harness, overflow_checks,
                   mode, decrypt, in_data, in_key, cli_iv, key, iv, aes,
                   chain, idx, nblk, msg, phase, block_size, input, output>>

\* bytes_to_hex, fs::write, Ok(())
WriteOutput ==
    /\ harness = "main" /\ pc = "write"
    /\ pc' = "done"
    /\ result' = "Ok"
    /\ UNCHANGED <<harness, overflow_checks,
                   mode, decrypt, in_data, in_key, cli_iv, data, key, iv, aes,
                   chain, idx, err_site, nblk, msg, arg, phase, block_size, input, output>>

\* The program is run again with --decrypt on the output of an encryption,
\* with the same mode, key file and --iv.
RunDecryptOnOutput ==
    /\ harness = "main" /\ pc = "done" /\ result = "Ok"
    /\ ~decrypt /\ phase = 1
    /\ in_data' = Text(data)
    /\ decrypt' = TRUE
    /\ phase' = 2
    /\ pc' = "load_data"
    /\ data' = << >> /\ key' = << >> /\ iv' = << >> /\ aes' = << >> /\ chain' = << >>
    /\ idx' = 0 /\ result' = "none" /\ err_site' = "none" /\ nblk' = 0
    /\ arg' = << >>
    /\ UNCHANGED <<harness, overflow_checks,
                   mode, in_key, cli_iv, msg, block_size, input, output>>

Next ==
    \/ LoadData \/ LoadKey \/ LoadIv \/ NewAes
    \/ PrepareEncryptPadded \/ PrepareDecryptPadded \/ PrepareStream
    \/ EcbEncrypt \/ EcbDecrypt \/ CbcEncrypt \/ CbcDecrypt
    \/ CfbEncrypt \/ CfbDecrypt \/ CtrEncryptDecrypt
    \/ ModeReturn \/ RemovePadding \/ WriteOutput
    \/ RunDecryptOnOutput

Spec == InitMain /\ [][Next]_vars

-----------------------------------------------------------------------------
(* The block test (test_aes_encrypt_decrypt, lines 718-744): Aes::new,      *)
(* encrypt_block on the plaintext, decrypt_block on what that left.         *)

PatternSeeds == { PatternSeed(s) : s \in 1..NumSeeds }

BlockKeys ==
    { FipsKey, Repeat(0, KEY_SIZE), Repeat(255, KEY_SIZE) }
    \cup { Pattern(seed, KEY_SIZE) : seed \in PatternSeeds }

BlockInputs ==
    { FipsPlain, Repeat(0, BLOCK_SIZE), Repeat(255, BLOCK_SIZE) }
    \cup { Pattern(seed + 1, BLOCK_SIZE) : seed \in PatternSeeds }

InitBlock ==
    /\ overflow_checks = TRUE
    /\ harness = "block"
    /\ pc = "new"
    /\ key \in BlockKeys
    /\ data \in BlockInputs
    /\ msg = data
    /\ mode = "ecb" /\ decrypt = FALSE
    /\ in_data = BadText /\ in_key = BadText /\ cli_iv = << >>
    /\ iv = << >> /\ aes = << >> /\ chain = << >> /\ idx = 0
    /\ result = "none" /\ err_site = "none" /\ nblk = 0
    /\ arg = << >> /\ phase = 1 /\ block_size = BLOCK_SIZE
    /\ input = << >> /\ output = << >>

\* let aes = Aes::new(&key);
BlockNew ==
    /\ harness = "block" /\ pc = "new"
    /\ aes' = Aes_new(key)
    /\ pc' = "encrypt"
    /\ UNCHANGED <<harness, overflow_checks,
                   mode, decrypt, in_data, in_key, cli_iv, data, key, iv,
                   chain, idx, result, err_site, nblk, msg, arg, phase, block_size, input, output>>

\* aes.encrypt_block(&mut block);
BlockEncrypt ==
    /\ harness = "block" /\ pc = "encrypt"
    /\ data' = encrypt_block(aes, data)
    /\ nblk' = nblk + 1
    /\ pc' = "decrypt"
    /\ UNCHANGED <<harness, overflow_checks,
                   mode, decrypt, in_data, in_key, cli_iv, key, iv, aes,
                   chain, idx, result, err_site, msg, arg, phase, block_size, input, output>>

\* aes.decrypt_block(&mut block);
BlockDecrypt ==
    /\ harness = "block" /\ pc = "decrypt"
    /\ data' = decrypt_block(aes, data)
    /\ nblk' = nblk + 1
    /\ pc' = "done"
    /\ UNCHANGED <<harness, overflow_checks,
                   mode, decrypt, in_data, in_key, cli_iv, key, iv, aes,
                   chain, idx, result, err_site, msg, arg, phase, block_size, input, output>>

NextBlock == BlockNew \/ BlockEncrypt \/ BlockDecrypt

SpecBlock == InitBlock /\ [][NextBlock]_vars

-----------------------------------------------------------------------------
(* Aes::new one pass of key_expansion at a time (lines 147-195), then        *)
(* encrypt_block and decrypt_block one call at a time (lines 203-250):       *)
(* arg is the local state, chain the calls made so far on it, idx their      *)
(* number; decrypt says which of the two functions runs.                     *)

InitRounds ==
    /\ overflow_checks = TRUE
    /\ harness = "rounds"
    /\ pc = "new"
    /\ key \in BlockKeys
    /\ data \in BlockInputs
    /\ msg = data
    /\ mode = "ecb" /\ decrypt = FALSE
    /\ in_data = BadText /\ in_key = BadText /\ cli_iv = << >>
    /\ iv = << >> /\ aes = << >> /\ chain = << >> /\ idx = 0
    /\ result = "none" /\ err_site = "none" /\ nblk = 0
    /\ arg = << >> /\ phase = 1 /\ block_size = BLOCK_SIZE
    /\ input = << >> /\ output = << >>

\* let aes = Aes::new(&key); up to the loop of key_expansion: the zeroed
\* array with the key copied to its front.
RoundsNew ==
    /\ harness = "rounds" /\ pc = "new"
    /\ aes' = [k \in 1..EXPANDED_KEY_SIZE |-> IF k <= KEY_SIZE THEN key[k] ELSE 0]
    /\ idx' = KEY_SIZE
    /\ pc' = "key_expansion"
    /\ UNCHANGED <<harness, overflow_checks,
                   mode, decrypt, in_data, in_key, cli_iv, data, key, iv,
                   chain, result, err_site, nblk, msg, arg, phase, block_size,
                   input, output>>

\* One pass of the loop of key_expansion; idx is its i.
RoundsKeyExpansion ==
    /\ harness = "rounds" /\ pc = "key_expansion"
    /\ idx < EXPANDED_KEY_SIZE
    /\ aes' = key_expansion_step(aes, idx)
    /\ idx' = idx + 4
    /\ UNCHANGED <<harness, overflow_checks,
                   pc, mode, decrypt, in_data, in_key, cli_iv, data, key, iv,
                   chain, result, err_site, nblk, msg, arg, phase, block_size,
                   input, output>>

\* key_expansion and Aes::new return.
RoundsKeyExpanded ==
    /\ harness = "rounds" /\ pc = "key_expansion"
    /\ idx >= EXPANDED_KEY_SIZE
    /\ pc' = "bytes_to_state"
    /\ UNCHANGED <<harness, overflow_checks,
                   mode, decrypt, in_data, in_key, cli_iv, data, key, iv, aes,
                   chain, idx, result, err_site, nblk, msg, arg, phase, block_size,
                   input, output>>

\* let mut state = self.bytes_to_state(block);
RoundsBytesToState ==
    /\ harness = "rounds" /\ pc = "bytes_to_state"
    /\ arg' = bytes_to_state(data)
    /\ chain' = << >>
    /\ idx' = 0
    /\ pc' = "steps"
    /\ UNCHANGED <<harness, overflow_checks,
                   mode, decrypt, in_data, in_key, cli_iv, data, key, iv,
                   aes, result, err_site, nblk, msg, phase, block_size, input,
                   output>>

\* The next call on the state, of encrypt_block or of decrypt_block.
RoundsStep ==
    /\ harness = "rounds" /\ pc = "steps"
    /\ LET sched == IF decrypt THEN DecryptSchedule ELSE EncryptSchedule
       IN /\ idx < Len(sched)
          /\ arg' = ApplyStep(aes, arg, sched[idx + 1])
          /\ chain' = Append(chain, sched[idx + 1])
    /\ idx' = idx + 1
    /\ UNCHANGED <<harness, overflow_checks,
                   pc, mode, decrypt, in_data, in_key, cli_iv, data, key,
                   iv, aes, result, err_site, nblk, msg, phase, block_size, input,
                   output>>

\* *block = self.state_to_bytes(&state); the test then calls decrypt_block on
\* the block that encrypt_block left.
RoundsStateToBytes ==
    /\ harness = "rounds" /\ pc = "steps"
    /\ idx = Len(IF decrypt THEN DecryptSchedule ELSE EncryptSchedule)
    /\ data' = state_to_bytes(arg)
    /\ nblk' = nblk + 1
    /\ pc' = IF decrypt THEN "done" ELSE "bytes_to_state"
    /\ decrypt' = TRUE
    /\ UNCHANGED <<harness, overflow_checks,
                   mode, in_data, in_key, cli_iv, key, iv, aes, chain,
                   idx, result, err_site, msg, arg, phase, block_size, input,
                   output>>

NextRounds ==
    \/ RoundsNew \/ RoundsKeyExpansion \/ RoundsKeyExpanded
    \/ RoundsBytesToState \/ RoundsStep \/ RoundsStateToBytes

SpecRounds == InitRounds /\ [][NextRounds]_vars

-----------------------------------------------------------------------------
(* The padding test (test_padding, lines 782-790): add_padding then          *)
(* remove_padding on a buffer, and remove_padding on a buffer as it is.      *)

PadBytes == {0, 1, 2, 3, 17}

\* Every sequence over S of length n, and of length up to n
RECURSIVE SeqsOfLen(_, _)
SeqsOfLen(S, n) ==
    IF n = 0 THEN { << >> }
    ELSE { Append(q, b) : q \in SeqsOfLen(S, n - 1), b \in S }

SeqsUpTo(S, n) == UNION { SeqsOfLen(S, k) : k \in 0..n }

PadBuffers ==
    SeqsUpTo(PadBytes, MaxShort)
    \cup { << 1, 2, 3, 4, 5 >> }
    \cup { Pattern(PatternSeed(1), n) : n \in 0..MaxPadLen }
    \cup { prefix \o Repeat(b, n) :
             prefix \in { << >>, << 16 >>, << 7 >> },
             b \in {BLOCK_SIZE - 1, BLOCK_SIZE, BLOCK_SIZE + 1},
             n \in (BLOCK_SIZE - 2)..(BLOCK_SIZE + 1) }

PadBlockSizes == {1, 8, 16, 17, 255}

InitPad ==
    /\ overflow_checks = TRUE
    /\ harness = "pad"
    /\ pc = "start"
    /\ data \in PadBuffers
    /\ block_size \in PadBlockSizes
    /\ input = << >> /\ output = << >>
    /\ msg = data
    /\ arg = << >>
    /\ phase = 1
    /\ mode = "ecb" /\ decrypt = FALSE
    /\ in_data = BadText /\ in_key = BadText /\ cli_iv = << >>
    /\ key = << >> /\ iv = << >> /\ aes = << >> /\ chain = << >> /\ idx = 0
    /\ result = "none" /\ err_site = "none" /\ nblk = 0

\* add_padding(&mut data, block_size);
PadAdd ==
    /\ harness = "pad" /\ pc = "start"
    /\ arg' = data
    /\ data' = add_padding(data, block_size)
    /\ phase' = 2
    /\ pc' = "padded"
    /\ UNCHANGED <<harness, overflow_checks,
                   mode, decrypt, in_data, in_key, cli_iv, key, iv, aes,
                   chain, idx, result, err_site, nblk, msg, block_size, input, output>>

\* remove_padding(&mut data)
PadRemove ==
    /\ harness = "pad" /\ pc \in {"start", "padded"}
    /\ arg' = data
    /\ LET r == remove_padding(data)
       IN /\ data' = r.data
          /\ result' = r.result
          /\ err_site' = IF r.result # "Ok" THEN "remove_padding" ELSE "none"
    /\ pc' = "done"
    /\ UNCHANGED <<harness, overflow_checks,
                   mode, decrypt, in_data, in_key, cli_iv, key, iv, aes,
                   chain, idx, nblk, msg, phase, block_size, input, output>>

NextPad == PadAdd \/ PadRemove

SpecPad == InitPad /\ [][NextPad]_vars

-----------------------------------------------------------------------------
(* The S-box test (test_s_box, lines 746-759): three known values, then     *)
(* INV_S_BOX[S_BOX[i]] for i in 0..256.  data holds <<s_val, INV_S_BOX[s_val]>> *)
(* of the last pass; a failed assert_eq ends the test in "panic".            *)

InitSBox ==
    /\ overflow_checks = TRUE
    /\ harness = "sbox"
    /\ pc = "known"
    /\ idx = 0
    /\ data = << >>
    /\ result = "none" /\ err_site = "none"
    /\ mode = "ecb" /\ decrypt = FALSE
    /\ in_data = BadText /\ in_key = BadText /\ cli_iv = << >>
    /\ key = << >> /\ iv = << >> /\ aes = << >> /\ chain = << >>
    /\ nblk = 0 /\ msg = << >> /\ arg = << >> /\ phase = 1
    /\ block_size = BLOCK_SIZE
    /\ input = << >> /\ output = << >>

\* assert_eq!(S_BOX[0x00], 0x63); ... [0x01], 0x7c; ... [0xff], 0x16
SBoxKnown ==
    /\ harness = "sbox" /\ pc = "known"
    /\ IF S_BOX[0 + 1] = 99 /\ S_BOX[1 + 1] = 124 /\ S_BOX[255 + 1] = 22
       THEN pc' = "loop" /\ UNCHANGED <<result, err_site>>
       ELSE Fail("panic", "known")
    /\ UNCHANGED <<harness, overflow_checks,
                   mode, decrypt, in_data, in_key, cli_iv, data, key, iv,
                   aes, chain, idx, nblk, msg, arg, phase, block_size, input, output>>

\* let s_val = S_BOX[i]; assert_eq!(INV_S_BOX[s_val as usize], i as u8);
SBoxLoop ==
    /\ harness = "sbox" /\ pc = "loop" /\ idx < 256
    /\ LET s_val == S_BOX[idx + 1]
       IN /\ data' = << s_val, INV_S_BOX[s_val + 1] >>
          /\ IF INV_S_BOX[s_val + 1] = idx % 256
             THEN pc' = "loop" /\ UNCHANGED <<result, err_site>>
             ELSE Fail("panic", "loop")
    /\ idx' = idx + 1
    /\ UNCHANGED <<harness, overflow_checks,
                   mode, decrypt, in_data, in_key, cli_iv, key, iv,
                   aes, chain, nblk, msg, arg, phase, block_size, input, output>>

SBoxEnd ==
    /\ harness = "sbox" /\ pc = "loop" /\ idx = 256
    /\ pc' = "done"
    /\ result' = "Ok"
    /\ UNCHANGED <<harness, overflow_checks,
                   mode, decrypt, in_data, in_key, cli_iv, data, key, iv,
                   aes, chain, idx, err_site, nblk, msg, arg, phase, block_size, input, output>>

NextSBox == SBoxKnown \/ SBoxLoop \/ SBoxEnd

SpecSBox == InitSBox /\ [][NextSBox]_vars

-----------------------------------------------------------------------------
(* gf_mul (lines 378-395; test_gf_multiplication, lines 761-769), one pass  *)
(* of its loop at a time.  chain holds the arguments <<a, b>>, data the      *)
(* locals <<result, a, b>>, idx the passes made.                             *)

\* 0x1b, 0x53 * 0xca = 1, 0x80 and 0xff next to the small second factors
GfSeconds == (0..MaxGfSecond) \cup {27, 83, 128, 202, 255}

InitGf ==
    /\ overflow_checks = TRUE
    /\ harness = "gf"
    /\ pc = "loop"
    /\ \E a \in 0..255, b \in GfSeconds :
          chain = << a, b >> /\ data = << 0, a, b >>
    /\ idx = 0
    /\ result = "none" /\ err_site = "none"
    /\ mode = "ecb" /\ decrypt = FALSE
    /\ in_data = BadText /\ in_key = BadText /\ cli_iv = << >>
    /\ key = << >> /\ iv = << >> /\ aes = << >>
    /\ nblk = 0 /\ msg = << >> /\ arg = << >> /\ phase = 1
    /\ block_size = BLOCK_SIZE
    /\ input = << >> /\ output = << >>

\* for _ in 0..8 { ... }
GfMulIter ==
    /\ harness = "gf" /\ pc = "loop" /\ idx < 8
    /\ LET s == gf_mul_iter(data[1], data[2], data[3])
       IN data' = << s.result, s.a, s.b >>
    /\ idx' = idx + 1
    /\ UNCHANGED <<harness, overflow_checks,
                   pc, mode, decrypt, in_data, in_key, cli_iv, key, iv,
                   aes, chain, result, err_site, nblk, msg, arg, phase, block_size, input, output>>

\* the loop is over: `result` is returned
GfMulReturn ==
    /\ harness = "gf" /\ pc = "loop" /\ idx = 8
    /\ pc' = "done"
    /\ result' = "Ok"
    /\ UNCHANGED <<harness, overflow_checks,
                   mode, decrypt, in_data, in_key, cli_iv, data, key, iv,
                   aes, chain, idx, err_site, nblk, msg, arg, phase, block_size, input, output>>

NextGf == GfMulIter \/ GfMulReturn

SpecGf == InitGf /\ [][NextGf]_vars

-----------------------------------------------------------------------------
(* The cipher-modes library (src/cipher-modes): CipherModes over the         *)
(* DummyCipher of lib.rs.  A u64 is held as its 8 base-256 digits, least     *)
(* significant first.  A Result<Vec<u8>> is [result, bytes].                 *)

\* utils::xor_blocks
utils_xor_blocks(a, b) ==
    IF Len(a) # Len(b)
    THEN [result |-> "EncryptionError", bytes |-> << >>]
    ELSE [result |-> "Ok", bytes |-> [k \in 1..Len(a) |-> Xor(a[k], b[k])]]

\* utils::add_padding: null padding up to the next multiple of block_size
utils_add_padding(d, bs) ==
    LET remainder == Len(d) % bs
    IN IF remainder # 0 THEN d \o Repeat(0, bs - remainder) ELSE d

\* utils::remove_padding: pops while the last byte is 0
RECURSIVE utils_remove_padding(_)
utils_remove_padding(d) ==
    IF Len(d) > 0 /\ d[Len(d)] = 0
    THEN utils_remove_padding(SubSeq(d, 1, Len(d) - 1))
    ELSE d

\* <DummyCipher as BlockCipher>::encrypt: XOR with the key repeated
DummyCipher_encrypt(k, block) ==
    IF Len(k) = 0 THEN [result |-> "EncryptionError", bytes |-> << >>]
    ELSE IF Len(block) = 0 THEN [result |-> "Ok", bytes |-> << >>]
    ELSE LET key_cycle == [n \in 1..Len(block) |-> k[((n - 1) % Len(k)) + 1]]
         IN utils_xor_blocks(block, key_cycle)

\* <DummyCipher as BlockCipher>::decrypt
DummyCipher_decrypt(k, block) == DummyCipher_encrypt(k, block)

\* u64::to_be_bytes
u64_to_be_bytes(n) == [k \in 1..8 |-> n[9 - k]]

\* Digits k.. of n plus the carry c; the carry out of digit 8 is dropped.
RECURSIVE add_digits64(_, _, _)
add_digits64(n, k, c) ==
    IF k > 8 THEN << >>
    ELSE << (n[k] + c) % 256 >> \o add_digits64(n, k + 1, (n[k] + c) \div 256)

\* current_counter.saturating_add(1) in the place of wrapping_add(1)
u64_saturating_add_1(n) ==
    IF \A k \in 1..8 : n[k] = 255 THEN n ELSE add_digits64(n, 1, 1)

\* current_counter.wrapping_add(1)
u64_wrapping_add_1(n) == add_digits64(n, 1, 1)

\* CipherModes::counter_to_bytes
counter_to_bytes(counter, bs) ==
    LET counter_be == u64_to_be_bytes(counter)
        offset == IF bs >= 8 THEN bs - 8 ELSE 0
        copy_len == IF bs < 8 THEN bs ELSE 8
    IN [k \in 1..bs |->
          IF k > offset /\ k <= offset + copy_len
          THEN counter_be[(8 - copy_len) + (k - offset)]
          ELSE 0]

\* plaintext.chunks(block_size): the number of chunks and chunk i (0-based);
\* the last chunk may be short.
chunks_count(d, bs) == (Len(d) + bs - 1) \div bs
chunks_at(d, bs, i) ==
    SubSeq(d, i * bs + 1, IF (i + 1) * bs < Len(d) THEN (i + 1) * bs ELSE Len(d))

\* The loop bodies: [result, out, chain] are the error or Ok, the bytes the
\* output is extended by, and the value carried to the next chunk.

\* CipherModes::ecb_encrypt
CipherModes_ecb_encrypt(k, chunk, carried, bs) ==
    LET encrypted_block == DummyCipher_encrypt(k, chunk)
    IN [result |-> encrypted_block.result, out |-> encrypted_block.bytes,
        chain |-> carried]

\* CipherModes::ecb_decrypt
CipherModes_ecb_decrypt(k, chunk, carried, bs) ==
    LET decrypted_block == DummyCipher_decrypt(k, chunk)
    IN [result |-> decrypted_block.result, out |-> decrypted_block.bytes,
        chain |-> carried]

\* CipherModes::cbc_encrypt
CipherModes_cbc_encrypt(k, chunk, previous_block, bs) ==
    LET xored == utils_xor_blocks(chunk, previous_block)
    IN IF xored.result # "Ok"
       THEN [result |-> xored.result, out |-> << >>, chain |-> previous_block]
       ELSE LET encrypted_block == DummyCipher_encrypt(k, xored.bytes)
            IN [result |-> encrypted_block.result, out |-> encrypted_block.bytes,
                chain |-> encrypted_block.bytes]

\* CipherModes::cbc_decrypt
CipherModes_cbc_decrypt(k, chunk, previous_block, bs) ==
    LET decrypted_block == DummyCipher_decrypt(k, chunk)
    IN IF decrypted_block.result # "Ok"
       THEN [result |-> decrypted_block.result, out |-> << >>, chain |-> previous_block]
       ELSE LET xored == utils_xor_blocks(decrypted_block.bytes, previous_block)
            IN [result |-> xored.result, out |-> xored.bytes, chain |-> chunk]

\* ofb_encrypt XORing the chunk with the whole feedback block.
CipherModes_ofb_encrypt_whole_block(k, chunk, feedback, bs) ==
    LET fb == DummyCipher_encrypt(k, feedback)
    IN IF fb.result # "Ok"
       THEN [result |-> fb.result, out |-> << >>, chain |-> feedback]
       ELSE LET xored == utils_xor_blocks(chunk, fb.bytes)
            IN [result |-> xored.result, out |-> xored.bytes, chain |-> fb.bytes]

\* CipherModes::ofb_encrypt (ofb_decrypt calls it)
CipherModes_ofb_encrypt(k, chunk, feedback, bs) ==
    LET fb == DummyCipher_encrypt(k, feedback)
    IN IF fb.result # "Ok"
       THEN [result |-> fb.result, out |-> << >>, chain |-> feedback]
       ELSE LET n == IF Len(chunk) < bs THEN Len(chunk) ELSE bs
                keystream == SubSeq(fb.bytes, 1, n)
                xored == utils_xor_blocks(chunk, keystream)
            IN [result |-> xored.result, out |-> xored.bytes, chain |-> fb.bytes]

\* CipherModes::ctr_encrypt (ctr_decrypt calls it)
CipherModes_ctr_encrypt(k, chunk, current_counter, bs) ==
    LET counter_bytes == counter_to_bytes(current_counter, bs)
        encrypted_counter == DummyCipher_encrypt(k, counter_bytes)
    IN IF encrypted_counter.result # "Ok"
       THEN [result |-> encrypted_counter.result, out |-> << >>,
             chain |-> current_counter]
       ELSE LET n == IF Len(chunk) < bs THEN Len(chunk) ELSE bs
                keystream == SubSeq(encrypted_counter.bytes, 1, n)
                xored == utils_xor_blocks(chunk, keystream)
            IN [result |-> xored.result, out |-> xored.bytes,
                chain |-> u64_wrapping_add_1(current_counter)]

\* The checks a mode function makes before its loop, IV length first.
entry_checks_iv_first(m, dec, bs, v, d) ==
    IF m \in {"cbc", "ofb"} /\ Len(v) # bs THEN "InvalidIvLength"
    ELSE IF bs = 0 THEN "InvalidBlockSize"
    ELSE IF m \in {"ecb", "cbc"} /\ dec /\ Len(d) % bs # 0 THEN "PaddingError"
    ELSE "Ok"

\* The checks a mode function makes before its loop: block_size == 0, then
\* (CBC, OFB) iv.len() != block_size, then (ECB, CBC decryption) the length.
entry_checks(m, dec, bs, v, d) ==
    IF bs = 0 THEN "InvalidBlockSize"
    ELSE IF m \in {"cbc", "ofb"} /\ Len(v) # bs THEN "InvalidIvLength"
    ELSE IF m \in {"ecb", "cbc"} /\ dec /\ Len(d) % bs # 0 THEN "PaddingError"
    ELSE "Ok"

\* The function whose loop runs for a mode and a direction.
LibFunction(m, dec) ==
    CASE m = "ecb" -> IF dec THEN "ecb_decrypt" ELSE "ecb_encrypt"
      [] m = "cbc" -> IF dec THEN "cbc_decrypt" ELSE "cbc_encrypt"
      [] m = "ofb" -> "ofb_encrypt"
      [] m = "ctr" -> "ctr_encrypt"

LibChunkStep(f, k, chunk, carried, bs) ==
    CASE f = "ecb_encrypt" -> CipherModes_ecb_encrypt(k, chunk, carried, bs)
      [] f = "ecb_decrypt" -> CipherModes_ecb_decrypt(k, chunk, carried, bs)
      [] f = "cbc_encrypt" -> CipherModes_cbc_encrypt(k, chunk, carried, bs)
      [] f = "cbc_decrypt" -> CipherModes_cbc_decrypt(k, chunk, carried, bs)
      [] f = "ofb_encrypt" -> CipherModes_ofb_encrypt(k, chunk, carried, bs)
      [] f = "ctr_encrypt" -> CipherModes_ctr_encrypt(k, chunk, carried, bs)

MaxLibLen == 10     \* library: patterned plaintexts of every length up to this

LibModes == {"ecb", "cbc", "ofb", "ctr"}
LibBlockSizes == {0, 1, 3, 8, 9}

\* "Hi" of the partial-block tests, and plaintexts that end in zero bytes
LibPlaintexts ==
    { Pattern(PatternSeed(1), n) : n \in 0..MaxLibLen }
    \cup { << 72, 105 >>, << 0 >>, << 1, 0 >>, << 7, 0, 0 >> }

\* no key, one byte, "testkey1", and a key longer than every block
LibKeys ==
    { << >>, << 5 >>, << 116, 101, 115, 116, 107, 101, 121, 49 >>,
      Pattern(PatternSeed(3), 10) }

LibIvs(bs) ==
    { Pattern(PatternSeed(2), n) : n \in {bs, bs + 1} \cup (IF bs > 0 THEN {bs - 1} ELSE {}) }

\* u64::MAX, u64::MAX - 1, 1000 and 42
LibCounters ==
    { Repeat(255, 8), << 254 >> \o Repeat(255, 7),
      << 232, 3 >> \o Repeat(0, 6), << 42 >> \o Repeat(0, 7) }

\* One call of a mode function.  iv holds the iv argument (CBC, OFB) or the
\* counter argument (CTR); data holds the plaintext or ciphertext argument.
InitLib ==
    /\ overflow_checks = TRUE
    /\ harness = "lib"
    /\ pc = "call"
    /\ mode \in LibModes
    /\ decrypt \in BOOLEAN
    /\ block_size \in LibBlockSizes
    /\ data \in LibPlaintexts
    /\ key \in LibKeys
    /\ iv \in CASE mode \in {"cbc", "ofb"} -> LibIvs(block_size)
                [] mode = "ctr" -> LibCounters
                [] mode = "ecb" -> { << >> }
    /\ msg = data
    /\ input = << >> /\ output = << >>
    /\ chain = << >> /\ idx = 0 /\ nblk = 0
    /\ result = "none" /\ err_site = "none"
    /\ phase = 1 /\ arg = << >>
    /\ in_data = BadText /\ in_key = BadText /\ cli_iv = << >> /\ aes = << >>

\* Entry of the mode function: its checks, the padding, the loop's locals.
LibCall ==
    /\ harness = "lib" /\ pc = "call"
    /\ LET c == entry_checks(mode, decrypt, block_size, iv, data)
       IN IF c # "Ok"
          THEN Fail(c, "entry") /\ UNCHANGED <<input, output, chain>>
          ELSE /\ input' = IF mode \in {"ecb", "cbc"} /\ ~decrypt
                           THEN utils_add_padding(data, block_size)
                           ELSE data
               /\ output' = << >>
               /\ chain' = IF mode = "ecb" THEN << >> ELSE iv
               /\ pc' = LibFunction(mode, decrypt)
               /\ UNCHANGED <<result, err_site>>
    /\ UNCHANGED <<harness, overflow_checks,
                   mode, decrypt, in_data, in_key, cli_iv, data, key, iv,
                   aes, idx, nblk, msg, arg, phase, block_size>>

\* One pass of the loop of mode function f over input.chunks(block_size).
LibStep(f) ==
    /\ harness = "lib" /\ pc = f
    /\ idx < chunks_count(input, block_size)
    /\ LET r == LibChunkStep(f, key, chunks_at(input, block_size, idx), chain,
                             block_size)
       IN IF r.result # "Ok"
          THEN Fail(r.result, "cipher") /\ UNCHANGED <<output, chain, idx>>
          ELSE /\ output' = output \o r.out
               /\ chain' = r.chain
               /\ idx' = idx + 1
               /\ UNCHANGED <<pc, result, err_site>>
    /\ nblk' = nblk + 1
    /\ UNCHANGED <<harness, overflow_checks,
                   mode, decrypt, in_data, in_key, cli_iv, data, key, iv,
                   aes, msg, arg, phase, block_size, input>>

LibEcbEncrypt == LibStep("ecb_encrypt")
LibEcbDecrypt == LibStep("ecb_decrypt")
LibCbcEncrypt == LibStep("cbc_encrypt")
LibCbcDecrypt == LibStep("cbc_decrypt")
LibOfbEncrypt == LibStep("ofb_encrypt")
LibCtrEncrypt == LibStep("ctr_encrypt")

\* Ok(ciphertext), or Ok(utils::remove_padding(&plaintext)) in ECB and CBC
\* decryption
LibReturn ==
    /\ harness = "lib"
    /\ pc \in {"ecb_encrypt", "ecb_decrypt", "cbc_encrypt", "cbc_decrypt",
               "ofb_encrypt", "ctr_encrypt"}
    /\ idx = chunks_count(input, block_size)
    /\ output' = IF pc \in {"ecb_decrypt", "cbc_decrypt"}
                 THEN utils_remove_padding(output)
                 ELSE output
    /\ result' = "Ok"
    /\ pc' = "done"
    /\ UNCHANGED <<harness, overflow_checks,
                   mode, decrypt, in_data, in_key, cli_iv, data, key, iv,
                   aes, chain, idx, err_site, nblk, msg, arg, phase, block_size,
                   input>>

\* The tests' second call: the decrypting function on what encryption
\* returned, with the same key, iv or counter and block size.
LibDecryptOutput ==
    /\ harness = "lib" /\ pc = "done" /\ result = "Ok"
    /\ ~decrypt /\ phase = 1
    /\ data' = output
    /\ decrypt' = TRUE
    /\ phase' = 2
    /\ pc' = "call"
    /\ input' = << >> /\ output' = << >> /\ chain' = << >>
    /\ idx' = 0 /\ nblk' = 0 /\ result' = "none" /\ err_site' = "none"
    /\ UNCHANGED <<harness, overflow_checks,
                   mode, in_data, in_key, cli_iv, key, iv, aes, msg, arg,
                   block_size>>

NextLib ==
    \/ LibCall
    \/ LibEcbEncrypt \/ LibEcbDecrypt \/ LibCbcEncrypt \/ LibCbcDecrypt
    \/ LibOfbEncrypt \/ LibCtrEncrypt
    \/ LibReturn \/ LibDecryptOutput

SpecLib == InitLib /\ [][NextLib]_vars

-----------------------------------------------------------------------------
(* CipherModes::ctr_encrypt_with_nonce (ctr.rs, lines 86-131).  A u32 is     *)
(* held as its 4 base-256 digits, least significant first.  iv holds the     *)
(* nonce argument, chain the counter argument and then current_counter.      *)

\* a - b on usize: a panic in a build with overflow checks, else the value
\* modulo 2^64; a wrapped value stands for 2^64 + a - b, above every length.
usize_sub(a, b, checks) ==
    IF a >= b THEN [result |-> "Ok", wrapped |-> FALSE, value |-> a - b]
    ELSE IF checks THEN [result |-> "panic", wrapped |-> FALSE, value |-> 0]
    ELSE [result |-> "Ok", wrapped |-> TRUE, value |-> a - b]

\* u32::to_be_bytes
u32_to_be_bytes(n) == [k \in 1..4 |-> n[5 - k]]

\* Digits k.. of n plus the carry c; the carry out of digit 4 is dropped.
RECURSIVE add_digits32(_, _, _)
add_digits32(n, k, c) ==
    IF k > 4 THEN << >>
    ELSE << (n[k] + c) % 256 >> \o add_digits32(n, k + 1, (n[k] + c) \div 256)

\* current_counter.wrapping_add(1) on u32
u32_wrapping_add_1(n) == add_digits32(n, 1, 1)

\* The checks of ctr_encrypt_with_nonce before its loop.
nonce_entry_checks(bs, nonce, checks) ==
    IF bs = 0 THEN "InvalidBlockSize"
    ELSE LET limit == usize_sub(bs, 4, checks)
         IN IF limit.result # "Ok" THEN limit.result
            ELSE IF ~limit.wrapped /\ Len(nonce) > limit.value THEN "EncryptionError"
            ELSE "Ok"

\* The loop body of ctr_encrypt_with_nonce: slicing beyond the block panics.
CipherModes_ctr_encrypt_with_nonce(k, chunk, nonce, current_counter, bs, checks) ==
    LET counter_start == usize_sub(bs, 4, checks)
        failed(kind) == [result |-> kind, out |-> << >>, chain |-> current_counter]
    IN IF Len(nonce) > bs THEN failed("panic")
       ELSE IF counter_start.result # "Ok" THEN failed(counter_start.result)
       ELSE IF counter_start.wrapped THEN failed("panic")
       ELSE LET counter_be == u32_to_be_bytes(current_counter)
                counter_block ==
                    [n \in 1..bs |->
                        IF n > counter_start.value THEN counter_be[n - counter_start.value]
                        ELSE IF n <= Len(nonce) THEN nonce[n]
                        ELSE 0]
                encrypted_counter == DummyCipher_encrypt(k, counter_block)
            IN IF encrypted_counter.result # "Ok"
               THEN failed(encrypted_counter.result)
               ELSE LET m == IF Len(chunk) < bs THEN Len(chunk) ELSE bs
                        keystream == SubSeq(encrypted_counter.bytes, 1, m)
                        xored == utils_xor_blocks(chunk, keystream)
                    IN [result |-> xored.result, out |-> xored.bytes,
                        chain |-> u32_wrapping_add_1(current_counter)]

\* block sizes below, at and above the four bytes of the counter
NonceBlockSizes == {0, 1, 2, 3, 4, 5, 16}
Nonces == { Pattern(PatternSeed(2), n) : n \in {0, 1, 2, 4, 12, 13} }
NoncePlaintexts == { Pattern(PatternSeed(1), n) : n \in {0, 1, 5, 17, 33} }
NonceKeys == { << >>, << 116, 101, 115, 116, 107, 101, 121, 49 >> }
NonceCounters == { << 1, 0, 0, 0 >>, Repeat(255, 4) }

InitNonce ==
    /\ harness = "nonce"
    /\ overflow_checks \in BOOLEAN
    /\ pc = "call"
    /\ mode = "ctr" /\ decrypt = FALSE
    /\ block_size \in NonceBlockSizes
    /\ data \in NoncePlaintexts
    /\ key \in NonceKeys
    /\ iv \in Nonces
    /\ chain \in NonceCounters
    /\ msg = data
    /\ input = << >> /\ output = << >>
    /\ idx = 0 /\ nblk = 0
    /\ result = "none" /\ err_site = "none"
    /\ phase = 1 /\ arg = << >>
    /\ in_data = BadText /\ in_key = BadText /\ cli_iv = << >> /\ aes = << >>

\* Entry of ctr_encrypt_with_nonce up to its loop.
NonceCall ==
    /\ harness = "nonce" /\ pc = "call"
    /\ LET c == nonce_entry_checks(block_size, iv, overflow_checks)
       IN IF c # "Ok"
          THEN Fail(c, "entry") /\ UNCHANGED <<input, output>>
          ELSE /\ input' = data
               /\ output' = << >>
               /\ pc' = "ctr_encrypt_with_nonce"
               /\ UNCHANGED <<result, err_site>>
    /\ UNCHANGED <<harness, overflow_checks, mode, decrypt, in_data, in_key, cli_iv,
                   data, key, iv, aes, chain, idx, nblk, msg, arg, phase, block_size>>

\* One pass of the loop over plaintext.chunks(block_size).
NonceStep ==
    /\ harness = "nonce" /\ pc = "ctr_encrypt_with_nonce"
    /\ idx < chunks_count(input, block_size)
    /\ LET r == CipherModes_ctr_encrypt_with_nonce(
                    key, chunks_at(input, block_size, idx), iv, chain, block_size,
                    overflow_checks)
       IN IF r.result # "Ok"
          THEN Fail(r.result, "loop") /\ UNCHANGED <<output, chain, idx, nblk>>
          ELSE /\ output' = output \o r.out
               /\ chain' = r.chain
               /\ idx' = idx + 1
               /\ nblk' = nblk + 1
               /\ UNCHANGED <<pc, result, err_site>>
    /\ UNCHANGED <<harness, overflow_checks, mode, decrypt, in_data, in_key, cli_iv,
                   data, key, iv, aes, msg, arg, phase, block_size, input>>

\* Ok(ciphertext)
NonceReturn ==
    /\ harness = "nonce" /\ pc = "ctr_encrypt_with_nonce"
    /\ idx = chunks_count(input, block_size)
    /\ result' = "Ok"
    /\ pc' = "done"
    /\ UNCHANGED <<harness, overflow_checks, mode, decrypt, in_data, in_key, cli_iv,
                   data, key, iv, aes, chain, idx, err_site, nblk, msg, arg, phase,
                   block_size, input, output>>

NextNonce == NonceCall \/ NonceStep \/ NonceReturn

SpecNonce == InitNonce /\ [][NextNonce]_vars

-----------------------------------------------------------------------------
(* Properties *)

\* C1: for every 16-byte key and every 16-byte block, decrypt_block applied to
\* what encrypt_block made of the block gives the block back.
BlockRoundTrip ==
    harness = "block" /\ pc = "done" => data = msg

\* C1 witness: a block other than the FIPS-197 one went through both transforms.
BlockRoundTripDone ==
    /\ harness = "block" /\ pc = "done" /\ nblk = 2
    /\ key = Repeat(255, KEY_SIZE)
    /\ msg = Pattern(PatternSeed(1) + 1, BLOCK_SIZE)

\* C2: under the FIPS-197 key, encrypt_block takes the FIPS-197 plaintext to
\* the FIPS-197 ciphertext, and decrypt_block takes that ciphertext back.
FipsVector ==
    harness = "block" /\ key = FipsKey /\ msg = FipsPlain =>
        /\ pc = "decrypt" => data = FipsCipher
        /\ pc = "done" => data = FipsPlain

\* C2 witness: the FIPS-197 vector was encrypted and decrypted.
FipsVectorDone ==
    harness = "block" /\ pc = "done" /\ key = FipsKey /\ msg = FipsPlain /\ nblk = 2

\* C3: in ECB and CBC an encryption that got a valid key and IV succeeds, and
\* the decryption of its output with the same key and IV succeeds and gives
\* exactly the message, whatever its length.
PaddedRoundTrip ==
    harness = "main" /\ mode \in {"ecb", "cbc"} /\ pc = "done" =>
        /\ phase = 1 /\ ~decrypt /\ aes # << >> =>
              result = "Ok" /\ Len(data) % BLOCK_SIZE = 0 /\ Len(data) > Len(msg)
        /\ phase = 2 => result = "Ok" /\ data = msg

\* C3 witness: a CBC round trip of a message of one whole block and one byte.
PaddedRoundTripDone ==
    /\ harness = "main" /\ mode = "cbc" /\ phase = 2 /\ pc = "done"
    /\ Len(msg) = BLOCK_SIZE + 1

\* C4 as stated: CFB and CTR give an output of exactly the length of the
\* message, and decrypting it gives exactly the message.
StreamExactLength ==
    harness = "main" /\ mode \in {"cfb", "ctr"} /\ pc = "done" /\ result = "Ok" =>
        /\ phase = 1 /\ ~decrypt => Len(data) = Len(msg)
        /\ phase = 2 => data = msg

\* C4 amended: CFB and CTR extend the input with zero bytes to the next
\* multiple of 16 (nothing when it is one already), every block is transformed
\* whole, the output has the extended length, and decrypting it gives the
\* message followed by those zero bytes.
StreamZeroExtended ==
    harness = "main" /\ mode \in {"cfb", "ctr"} /\ pc = "done" /\ aes # << >> =>
        /\ result = "Ok"
        /\ Len(data) % BLOCK_SIZE = 0
        /\ Len(data) >= Len(msg) /\ Len(data) < Len(msg) + BLOCK_SIZE
        /\ nblk * BLOCK_SIZE = Len(data)
        /\ phase = 2 => data = msg \o Repeat(0, Len(data) - Len(msg))

\* C4 witness: a CTR round trip of a one-byte message.
StreamZeroExtendedDone ==
    /\ harness = "main" /\ mode = "ctr" /\ phase = 2 /\ pc = "done"
    /\ Len(msg) = 1 /\ Len(data) = BLOCK_SIZE

\* C5: with block size 16, remove_padding after add_padding succeeds and
\* leaves exactly the buffer add_padding was given.
PaddingRoundTrip ==
    harness = "pad" /\ block_size = 16 /\ phase = 2 /\ pc = "done" =>
        result = "Ok" /\ data = msg

\* C5 witness: a buffer of exactly 16 bytes was padded and unpadded.
PaddingRoundTripDone ==
    /\ harness = "pad" /\ block_size = 16 /\ phase = 2 /\ pc = "done"
    /\ Len(msg) = 16

\* The buffers C6 says remove_padding rejects.
PaddingRejected(d) ==
    \/ Len(d) = 0
    \/ LET L == d[Len(d)]
       IN \/ L = 0
          \/ L > 16
          \/ L > Len(d)
          \/ \E k \in 1..L : d[Len(d) - k + 1] # L

\* C6: remove_padding returns an error for a buffer that is empty, or whose
\* last byte L is 0, or above 16, or above the length, or whose last L bytes
\* are not all L; every other buffer it accepts and shortens by its last L bytes.
RemovePaddingContract ==
    harness = "pad" /\ pc = "done" =>
        IF PaddingRejected(arg)
        THEN result # "Ok"
        ELSE result = "Ok" /\ data = SubSeq(arg, 1, Len(arg) - arg[Len(arg)])

\* C6 witness: a buffer of seventeen bytes ending in sixteen bytes of 16 was
\* accepted as it came.
RemovePaddingAccepted ==
    /\ harness = "pad" /\ pc = "done" /\ phase = 1
    /\ Len(arg) = 17 /\ arg[17] = 16 /\ result = "Ok"

\* C7: every failure of remove_padding on ECB/CBC decryption is reported as
\* InvalidPadding, a kind other than InvalidBlockSize.
PaddingFailureIsInvalidPadding ==
    harness = "main" /\ err_site = "remove_padding" =>
        result = "InvalidPadding" /\ result # "InvalidBlockSize"

\* C8: add_padding(data, 16) appends N = 16 - (len mod 16) bytes of value N,
\* 1 <= N <= 16, a whole block of 16s for data already aligned; the data stays
\* as the prefix and the new length is a multiple of 16.
AddPaddingShape ==
    harness = "pad" /\ block_size = 16 /\ pc = "padded" =>
        LET N == 16 - (Len(arg) % 16)
        IN /\ N >= 1 /\ N <= 16
           /\ Len(arg) % 16 = 0 => N = 16
           /\ Len(data) = Len(arg) + N
           /\ SubSeq(data, 1, Len(arg)) = arg
           /\ \A k \in (Len(arg) + 1)..Len(data) : data[k] = N
           /\ Len(data) % 16 = 0

\* C8 witness: add_padding was given 16 bytes and left 32.
AddPaddingFullBlock ==
    /\ harness = "pad" /\ block_size = 16 /\ pc = "padded"
    /\ Len(arg) = 16 /\ Len(data) = 32

\* The 16 big-endian bytes of (bytes + c) mod 2^128, bytes[k..16] taken as a
\* big-endian number: the carry out of the first byte is dropped.
RECURSIVE BigEndianAdd(_, _, _)
BigEndianAdd(bytes, k, c) ==
    IF k = 0 THEN bytes
    ELSE BigEndianAdd([bytes EXCEPT ![k] = (bytes[k] + c) % 256], k - 1,
                      (bytes[k] + c) \div 256)

CounterBytes(nonce, i) == BigEndianAdd(nonce, BLOCK_SIZE, i)

\* C9: in CTR mode block i of the output is block i of the input XOR E of the
\* 16 big-endian bytes of (nonce + i) mod 2^128; the counter goes on from 0
\* after 2^128 - 1 and nothing fails.
CtrKeystream ==
    harness = "main" /\ mode = "ctr" /\ aes # << >>
    /\ pc \in {"ctr_encrypt_decrypt", "write", "done"} =>
        LET nonce == cli_iv[1].bytes
            InByte(p) == IF p <= Len(in_data.bytes) THEN in_data.bytes[p] ELSE 0
            Keystream(j) == encrypt_block(aes, CounterBytes(nonce, j))
        IN /\ result \in {"none", "Ok"}
           /\ u128_to_be_bytes(chain) = CounterBytes(nonce, idx)
           /\ \A j \in 0..(idx - 1) :
                 LET ks == Keystream(j)
                 IN \A k \in 1..BLOCK_SIZE :
                       data[j * BLOCK_SIZE + k] = Xor(InByte(j * BLOCK_SIZE + k), ks[k])
           /\ \A p \in (idx * BLOCK_SIZE + 1)..Len(data) : data[p] = InByte(p)

\* C9 witness: two blocks were transformed from the nonce 2^128 - 1, the
\* second one under the counter 0.
CtrWrapped ==
    /\ harness = "main" /\ mode = "ctr" /\ pc = "done" /\ result = "Ok"
    /\ cli_iv = << Text(Repeat(255, BLOCK_SIZE)) >>
    /\ idx = 2 /\ chain = << 1 >> \o Repeat(0, BLOCK_SIZE - 1)

\* ECB over the whole of d, chunk by chunk, from chunk i on.
RECURSIVE EcbAll(_, _, _, _)
EcbAll(w, d, i, dec) ==
    IF i >= NumChunks(d) THEN d
    ELSE LET c == IF dec THEN decrypt_block(w, Chunk(d, i))
                  ELSE encrypt_block(w, Chunk(d, i))
             d1 == PutChunk(d, i, c)
         IN IF Len(d1) = Len(d) THEN EcbAll(w, d1, i + 1, dec) ELSE d1

\* What an ECB run ends with, from the data text, the key text and --decrypt
\* alone.
EcbOutcome(text, ktext, dec) ==
    IF ~text.ok THEN [result |-> "InvalidHexData", data |-> << >>]
    ELSE IF ~ktext.ok THEN [result |-> "InvalidHexData", data |-> text.bytes]
    ELSE IF Len(ktext.bytes) # KEY_SIZE
         THEN [result |-> "InvalidKeySize", data |-> text.bytes]
    ELSE IF ~dec
         THEN [result |-> "Ok",
               data |-> LET N == BLOCK_SIZE - (Len(text.bytes) % BLOCK_SIZE)
                        IN EcbAll(Aes_new(ktext.bytes), text.bytes \o Repeat(N, N),
                                  0, FALSE)]
    ELSE IF Len(text.bytes) % BLOCK_SIZE # 0
         THEN [result |-> "InvalidBlockSize", data |-> text.bytes]
    ELSE LET r == remove_padding(EcbAll(Aes_new(ktext.bytes), text.bytes, 0, TRUE))
         IN [result |-> r.result, data |-> r.data]

\* C10: CBC, CFB and CTR without an IV, once the data and the key are
\* accepted, end in MissingIv with no block transformed; in ECB the IV is not
\* read: no run has one, none fails over it, and the run ends as the data, the
\* key and --decrypt alone decide.
MissingIvContract ==
    harness = "main" =>
        /\ mode # "ecb" /\ cli_iv = << >> =>
              /\ nblk = 0 /\ aes = << >> /\ iv = << >>
              /\ pc \in {"load_data", "load_key", "load_iv", "done"}
              /\ pc = "done" /\ key # << >> =>
                    result = "MissingIv" /\ data = in_data.bytes
        /\ mode = "ecb" =>
              /\ iv = << >>
              /\ result # "MissingIv" /\ err_site # "parse_iv"
              /\ pc = "done" =>
                    LET r == EcbOutcome(in_data, in_key, decrypt)
                    IN result = r.result /\ data = r.data

\* C10 witness: a CTR run with a valid key and no --iv has ended.
MissingIvDone ==
    /\ harness = "main" /\ mode = "ctr" /\ cli_iv = << >>
    /\ pc = "done" /\ key # << >> /\ result = "MissingIv"

\* C11: ECB or CBC decryption of data whose length is not a multiple of 16 ends
\* in InvalidBlockSize, with no block decrypted and no padding looked at.
MisalignedCiphertextRejected ==
    harness = "main" /\ mode \in {"ecb", "cbc"} /\ decrypt
    /\ in_data.ok /\ Len(in_data.bytes) % 16 # 0 =>
        /\ nblk = 0
        /\ arg = << >>
        /\ pc \notin {"ecb_decrypt", "cbc_decrypt", "remove_padding", "write"}
        /\ pc = "done" /\ aes # << >> =>
              /\ result = "InvalidBlockSize" /\ err_site = "block_size"
              /\ data = in_data.bytes

\* C11 witness: a CBC decryption of 17 bytes got as far as the length check.
MisalignedCiphertextDone ==
    /\ harness = "main" /\ mode = "cbc" /\ decrypt /\ pc = "done"
    /\ Len(in_data.bytes) = 17 /\ aes # << >>

\* C12: a key that is not 16 bytes long ends the run in InvalidKeySize before
\* Aes::new; key expansion only ever gets a key of 16 bytes.
KeySizeChecked ==
    harness = "main" =>
        /\ aes # << >> => Len(key) = 16 /\ key = in_key.bytes
        /\ in_data.ok /\ in_key.ok /\ Len(in_key.bytes) # 16 =>
              /\ aes = << >> /\ key = << >> /\ nblk = 0
              /\ pc \in {"load_data", "load_key", "done"}
              /\ pc = "done" => result = "InvalidKeySize" /\ err_site = "key_size"

\* C12 witness: a run with a key of 17 bytes has ended.
KeySizeRejected ==
    /\ harness = "main" /\ pc = "done"
    /\ in_data.ok /\ in_key.ok /\ Len(in_key.bytes) = 17

\* The input of ecb_encrypt in a run of main: the message and its padding.
EcbPlainChunk(j) ==
    LET N == Len(data) - Len(in_data.bytes)
    IN Chunk(in_data.bytes \o Repeat(N, N), j)

\* C13: in ECB under one key, equal plaintext blocks give equal ciphertext
\* blocks wherever they stand: ciphertext block j is E of plaintext block j and
\* of nothing else.
EcbEqualBlocks ==
    harness = "main" /\ mode = "ecb" /\ ~decrypt
    /\ pc \in {"ecb_encrypt", "write", "done"} /\ aes # << >> =>
        /\ \A i, j \in 0..(idx - 1) :
              EcbPlainChunk(i) = EcbPlainChunk(j) => Chunk(data, i) = Chunk(data, j)
        /\ \A j \in 0..(idx - 1) :
              Chunk(data, j) = encrypt_block(Aes_new(key), EcbPlainChunk(j))

\* C13 witness: the FIPS-197 plaintext was encrypted twice in one message.
EcbEqualBlocksDone ==
    /\ harness = "main" /\ mode = "ecb" /\ ~decrypt /\ pc = "done"
    /\ in_data.bytes = FipsPlain \o FipsPlain
    /\ key = FipsKey /\ idx = 3
    /\ Chunk(data, 0) = FipsCipher /\ Chunk(data, 1) = FipsCipher

\* C14: INV_S_BOX[S_BOX[b]] = b for every byte b; the values of S_BOX are bytes
\* and no two of them are equal.
SBoxInverse ==
    harness = "sbox" =>
        /\ result # "panic"
        /\ idx > 0 => /\ data[1] = S_BOX[idx] /\ data[1] \in 0..255
                      /\ data[2] = idx - 1
        /\ Cardinality({ S_BOX[k] : k \in 1..idx }) = idx

\* C14 witness: the loop went over all 256 bytes.
SBoxInverseDone ==
    harness = "sbox" /\ pc = "done" /\ idx = 256 /\ result = "Ok"

\* a XOR b on 15 bits, and bit k of p
Xor15(a, b) == XorBits(a, b, 15)
Bit(p, k) == (p \div (2 ^ k)) % 2

\* The product of a and b as polynomials over GF(2): the XOR of a * x^i over
\* the bits i..7 of b that are set.
RECURSIVE PolyMul(_, _, _)
PolyMul(a, b, i) ==
    IF i > 7 THEN 0
    ELSE Xor15(IF Bit(b, i) = 1 THEN a * (2 ^ i) ELSE 0, PolyMul(a, b, i + 1))

\* p modulo x^8 + x^4 + x^3 + x + 1 (0x11b = 283), from the term x^k down.
RECURSIVE PolyMod(_, _)
PolyMod(p, k) ==
    IF k < 8 THEN p
    ELSE PolyMod(IF Bit(p, k) = 1 THEN Xor15(p, 283 * (2 ^ (k - 8))) ELSE p, k - 1)

GfProduct(a, b) == PolyMod(PolyMul(a, b, 0), 14)

\* C15: gf_mul(a, b) is the product of a and b as polynomials over GF(2)
\* modulo 0x11b, reached after exactly 8 passes of the loop and always a byte;
\* gf_mul(2,1) = 2, gf_mul(2,2) = 4, gf_mul(2,0x80) = 0x1b, gf_mul(3,1) = 3.
GfMulIsFieldProduct ==
    harness = "gf" =>
        /\ idx <= 8
        /\ data[1] \in 0..255 /\ data[2] \in 0..255
        /\ pc = "done" =>
              /\ idx = 8
              /\ data[1] = GfProduct(chain[1], chain[2])
              /\ gf_mul(chain[1], chain[2]) = data[1]
              /\ chain = << 2, 1 >> => data[1] = 2
              /\ chain = << 2, 2 >> => data[1] = 4
              /\ chain = << 2, 128 >> => data[1] = 27
              /\ chain = << 3, 1 >> => data[1] = 3

\* C15 witness: gf_mul(0x53, 0xca) returned 1 after a reduction.
GfMulInversePair ==
    harness = "gf" /\ pc = "done" /\ chain = << 83, 202 >> /\ data[1] = 1

\* The last round key FIPS-197 (appendix A.1) gives for FipsKey
FipsLastRoundKey ==
    << 208, 20, 249, 168, 201, 238, 37, 137, 225, 63, 12, 200, 182, 99, 12, 166 >>

\* C20: the expanded key has 176 bytes, starts with the key, and for
\* i = 16, 20, ..., 172 has w[i..i+4] = w[i-16..i-12] XOR temp, temp being
\* w[i-4..i], for i divisible by 16 rotated left by a byte, taken through the
\* S-box and its first byte XORed with Rcon[i/16]; the key alone decides it.
KeyExpansionRecurrence ==
    harness = "block" /\ aes # << >> =>
        /\ Len(aes) = 176
        /\ \A k \in 1..16 : aes[k] = key[k]
        /\ \A q \in 4..43 :
              LET i == 4 * q
                  t == << aes[i - 3], aes[i - 2], aes[i - 1], aes[i] >>
                  temp == IF i % 16 = 0
                          THEN << Xor(S_BOX[t[2] + 1], RCON[(i \div 16) + 1]),
                                  S_BOX[t[3] + 1], S_BOX[t[4] + 1], S_BOX[t[1] + 1] >>
                          ELSE t
              IN \A n \in 1..4 : aes[i + n] = Xor(aes[i - 16 + n], temp[n])
        /\ key = FipsKey => SubSeq(aes, 161, 176) = FipsLastRoundKey

\* C20 witness: the FIPS-197 key was expanded.
KeyExpansionDone ==
    harness = "block" /\ key = FipsKey /\ Len(aes) = 176 /\ pc = "encrypt"

\* C16: in the cipher-modes library, ECB and CBC decryption of what ECB and
\* CBC encryption returned gives at least len(p) bytes, the first len(p) of
\* them p, for every plaintext p, non-empty key and block size of 1 or more.
LibPaddedRoundTrip ==
    harness = "lib" /\ mode \in {"ecb", "cbc"} /\ Len(key) > 0
    /\ phase = 2 /\ pc = "done" =>
        /\ result = "Ok"
        /\ Len(output) >= Len(msg)
        /\ SubSeq(output, 1, Len(msg)) = msg

\* C17: OFB and CTR of the library keep the length: the output of a call has
\* as many bytes as its input, also for a short last block, and decrypting
\* with the same key and IV or counter gives the plaintext back.
LibStreamRoundTrip ==
    harness = "lib" /\ mode \in {"ofb", "ctr"} /\ Len(key) > 0
    /\ pc = "done" /\ err_site # "entry" =>
        /\ result = "Ok"
        /\ Len(output) = Len(data)
        /\ phase = 2 => output = msg

\* C17 witness: OFB on the two bytes "Hi" with block size 8, there and back.
LibStreamPartialBlock ==
    /\ harness = "lib" /\ mode = "ofb" /\ block_size = 8
    /\ phase = 2 /\ pc = "done" /\ msg = << 72, 105 >> /\ Len(data) = 2

\* C18: the counter of library CTR for block i is (counter + i) mod 2^64, 0
\* after u64::MAX; the call ends in Ok and decrypting from the same counter
\* gives the plaintext back.
LibCtrCounterWraps ==
    harness = "lib" /\ mode = "ctr" /\ Len(key) > 0
    /\ pc \in {"ctr_encrypt", "done"} /\ err_site # "entry" =>
        /\ u64_to_be_bytes(chain) = BigEndianAdd(u64_to_be_bytes(iv), 8, idx)
        /\ result \in {"none", "Ok"}
        /\ pc = "done" => idx = chunks_count(data, block_size)
        /\ pc = "done" /\ phase = 2 => output = msg

\* C18 witness: two blocks from the counter u64::MAX, decrypted again.
LibCtrWrapped ==
    /\ harness = "lib" /\ mode = "ctr" /\ iv = Repeat(255, 8) /\ block_size = 8
    /\ phase = 2 /\ pc = "done" /\ idx = 2 /\ chain = << 1 >> \o Repeat(0, 7)

\* C19: every mode function of the library returns InvalidBlockSize for
\* block_size 0, CBC and OFB return InvalidIvLength for a block size above 0
\* and an IV of another length, both before any call of the cipher, the
\* block size being looked at first.
LibEntryChecks ==
    harness = "lib" =>
        /\ block_size = 0 =>
              /\ pc \in {"call", "done"} /\ nblk = 0
              /\ pc = "done" => result = "InvalidBlockSize"
        /\ block_size > 0 /\ mode \in {"cbc", "ofb"} /\ Len(iv) # block_size =>
              /\ pc \in {"call", "done"} /\ nblk = 0
              /\ pc = "done" => result = "InvalidIvLength"

\* C19 witness: CBC with block size 0 and an IV of one byte has returned.
LibEntryChecksDone ==
    /\ harness = "lib" /\ mode = "cbc" /\ block_size = 0 /\ Len(iv) = 1
    /\ pc = "done"

\* The names of the calls in a trace, the round keys its add_round_key calls
\* name, and how often a call occurs in it.
StepNames(trace) == [k \in 1..Len(trace) |-> trace[k][1]]

RECURSIVE RoundKeysUsed(_)
RoundKeysUsed(trace) ==
    IF trace = << >> THEN << >>
    ELSE (IF Head(trace)[1] = "add_round_key" THEN << Head(trace)[2] >> ELSE << >>)
         \o RoundKeysUsed(Tail(trace))

StepCount(trace, name) == Cardinality({ k \in 1..Len(trace) : trace[k][1] = name })

\* The order the specification gives for encryption, by position 1..40.
PrescribedEncryptNames ==
    [k \in 1..40 |->
        IF k = 1 THEN "add_round_key"
        ELSE IF k >= 38 THEN << "sub_bytes", "shift_rows", "add_round_key" >>[k - 37]
        ELSE << "sub_bytes", "shift_rows", "mix_columns", "add_round_key" >>
                [((k - 2) % 4) + 1]]

\* C21: encrypt_block calls AddRoundKey(0), then SubBytes, ShiftRows,
\* MixColumns, AddRoundKey(round) for round 1..9 ascending, then SubBytes,
\* ShiftRows, AddRoundKey(10): at every point the calls made are the start of
\* that order, the round keys are 0, 1, ... each once, and at the end
\* MixColumns has run 9 times and all of 0..10 were used.
EncryptStepOrder ==
    harness = "rounds" /\ ~decrypt /\ pc = "steps" =>
        /\ Len(chain) = idx /\ idx <= 40
        /\ StepNames(chain) = SubSeq(PrescribedEncryptNames, 1, idx)
        /\ RoundKeysUsed(chain) = [k \in 1..Len(RoundKeysUsed(chain)) |-> k - 1]
        /\ ~ENABLED RoundsStep =>
              /\ idx = 40
              /\ StepCount(chain, "mix_columns") = 9
              /\ Len(RoundKeysUsed(chain)) = 11

\* C21 witness: encrypt_block has made its last call on the FIPS-197 block.
EncryptStepsDone ==
    /\ harness = "rounds" /\ ~decrypt /\ pc = "steps" /\ idx = 40
    /\ key = FipsKey /\ msg = FipsPlain /\ state_to_bytes(arg) = FipsCipher

\* The order the specification gives for decryption, by position 1..40.
PrescribedDecryptNames ==
    [k \in 1..40 |->
        IF k = 1 THEN "add_round_key"
        ELSE IF k >= 38
             THEN << "inv_shift_rows", "inv_sub_bytes", "add_round_key" >>[k - 37]
        ELSE << "inv_shift_rows", "inv_sub_bytes", "add_round_key",
                "inv_mix_columns" >>[((k - 2) % 4) + 1]]

\* C22: decrypt_block calls AddRoundKey(10), then InvShiftRows, InvSubBytes,
\* AddRoundKey(round), InvMixColumns for round 9 down to 1, then InvShiftRows,
\* InvSubBytes, AddRoundKey(0): the calls made are always the start of that
\* order, the round keys are 10, 9, ... each once, each InvMixColumns comes
\* right after the AddRoundKey of its round, and at the end InvMixColumns has
\* run 9 times and all of 10..0 were used.
DecryptStepOrder ==
    harness = "rounds" /\ decrypt /\ pc = "steps" =>
        /\ Len(chain) = idx /\ idx <= 40
        /\ StepNames(chain) = SubSeq(PrescribedDecryptNames, 1, idx)
        /\ RoundKeysUsed(chain) =
              [k \in 1..Len(RoundKeysUsed(chain)) |-> NUM_ROUNDS + 1 - k]
        /\ \A k \in 1..idx :
              chain[k][1] = "inv_mix_columns" =>
                  chain[k - 1] = << "add_round_key", chain[k][2] >>
        /\ ~ENABLED RoundsStep =>
              /\ idx = 40
              /\ StepCount(chain, "inv_mix_columns") = 9
              /\ Len(RoundKeysUsed(chain)) = 11

\* C22 witness: decrypt_block has made its last call and the state is the
\* FIPS-197 plaintext again.
DecryptStepsDone ==
    /\ harness = "rounds" /\ decrypt /\ pc = "steps" /\ idx = 40
    /\ key = FipsKey /\ state_to_bytes(arg) = FipsPlain

\* The block carried into chunk i of a chained mode: the IV for chunk 0, else
\* chunk i - 1 of the ciphertext c.
CarriedInto(c, i) == IF i = 0 THEN iv[1] ELSE Chunk(c, i - 1)

\* C23: in cbc_encrypt the chain value is the IV before the first block and
\* after block i the ciphertext block C_i just written, with
\* C_i = E(P_i XOR C_{i-1}); in cbc_decrypt it is after block i the block C_i
\* of the input as it was passed in, with P_i = D(C_i) XOR C_{i-1}; there is
\* one update per block.
CbcChaining ==
    /\ harness = "main" /\ pc = "cbc_encrypt" =>
          /\ nblk = idx
          /\ chain = CarriedInto(data, idx)
          /\ \A i \in 0..(idx - 1) :
                Chunk(data, i) =
                    encrypt_block(aes, XorBlock(Chunk(input, i), CarriedInto(data, i)))
    /\ harness = "main" /\ pc = "cbc_decrypt" =>
          /\ nblk = idx
          /\ chain = CarriedInto(input, idx)
          /\ \A i \in 0..(idx - 1) :
                Chunk(data, i) =
                    XorBlock(decrypt_block(aes, Chunk(input, i)), CarriedInto(input, i))

\* C23 witness: cbc_decrypt has overwritten two blocks and carries the second
\* ciphertext block, which is not the plaintext it wrote in its place.
CbcChainingDone ==
    /\ harness = "main" /\ pc = "cbc_decrypt" /\ idx = 2 /\ phase = 2
    /\ chain = Chunk(input, 1) /\ chain # Chunk(data, 1)

\* C24: cfb_encrypt and cfb_decrypt both take the keystream of block i from
\* the forward transform, ks_i = E(R_{i-1}), and leave in the shift register
\* the ciphertext block C_i (in decryption the block of the input as passed
\* in), so both directions have the same keystream for the same ciphertext;
\* CTR with --decrypt also XORs with E of the counter block.
CfbKeystream ==
    /\ harness = "main" /\ pc = "cfb_encrypt" =>
          /\ chain = CarriedInto(data, idx)
          /\ \A i \in 0..(idx - 1) :
                Chunk(data, i) =
                    XorBlock(Chunk(input, i), encrypt_block(aes, CarriedInto(data, i)))
    /\ harness = "main" /\ pc = "cfb_decrypt" =>
          /\ chain = CarriedInto(input, idx)
          /\ \A i \in 0..(idx - 1) :
                Chunk(data, i) =
                    XorBlock(Chunk(input, i), encrypt_block(aes, CarriedInto(input, i)))
    /\ harness = "main" /\ pc = "ctr_encrypt_decrypt" /\ decrypt =>
          \A i \in 0..(idx - 1) :
                Chunk(data, i) =
                    XorBlock(Chunk(input, i),
                             encrypt_block(aes, CounterBytes(iv[1], i)))

\* C24 witness: cfb_decrypt, run on what cfb_encrypt wrote, has restored two
\* blocks and holds the second ciphertext block in the shift register.
CfbKeystreamDone ==
    /\ harness = "main" /\ pc = "cfb_decrypt" /\ idx = 2 /\ phase = 2
    /\ chain = Chunk(input, 1) /\ chain # Chunk(data, 1)
    /\ Chunk(data, 0) = Chunk(msg, 0)

\* C25: once Aes::new has returned, the expanded key stays the 176 bytes that
\* Aes::new makes of the key, whatever block and mode operations have run,
\* and a pass of a mode function changes neither it nor the caller's IV: the
\* chaining value moves on, the IV stays what --iv gave.
ContextUnchanged ==
    /\ [](harness = "main" /\ aes # << >> =>
            /\ Len(aes) = EXPANDED_KEY_SIZE
            /\ aes = Aes_new(key)
            /\ iv = parse_iv(mode, cli_iv).iv)
    /\ [][harness = "main" /\ pc \in ModeFunctions => aes' = aes /\ iv' = iv]_vars

\* C25 witness: cbc_encrypt has returned after two blocks, its chaining value
\* no longer the IV.
ContextUnchangedDone ==
    /\ harness = "main" /\ mode = "cbc" /\ ~decrypt /\ pc = "write" /\ idx = 2
    /\ chain # iv[1] /\ aes = Aes_new(key)

\* The loop of mode function f run from chunk i to the end of d.
RECURSIVE RunMode(_, _, _, _, _)
RunMode(f, w, d, carried, i) ==
    IF i >= NumChunks(d) THEN d
    ELSE LET r == ChunkStep(f, w, Chunk(d, i), carried)
         IN RunMode(f, w, PutChunk(d, i, r.chunk), r.chain, i + 1)

\* What mode function f carries into its first chunk in this run.
ModeInit(f) ==
    IF f \in {"ecb_encrypt", "ecb_decrypt"} THEN << >>
    ELSE IF f = "ctr_encrypt_decrypt" THEN ctr_init(iv[1])
    ELSE iv[1]

\* d with every byte of chunk j changed.
OtherBlock(d, j) == PutChunk(d, j, XorBlock(Chunk(d, j), Repeat(1, BLOCK_SIZE)))

\* The input blocks that output block i of mode function f may depend on.
DependsOn(f, i) ==
    IF f \in {"cbc_decrypt", "cfb_decrypt"} THEN {i - 1, i} ELSE {i}

\* C26: in ECB (both directions) and CTR output block i comes from the key,
\* input block i and, in CTR, the nonce and i alone; in CBC and CFB decryption
\* it comes from ciphertext blocks i and i - 1 alone: the function run on the
\* same input with any other block changed writes the same block i.
BlockIndependence ==
    harness = "main" /\ idx = NumChunks(data)
    /\ pc \in {"ecb_encrypt", "ecb_decrypt", "ctr_encrypt_decrypt",
               "cbc_decrypt", "cfb_decrypt"} =>
        /\ pc = "ecb_encrypt" =>
              \A i \in 0..(idx - 1) :
                  Chunk(data, i) = encrypt_block(aes, Chunk(input, i))
        /\ pc = "ecb_decrypt" =>
              \A i \in 0..(idx - 1) :
                  Chunk(data, i) = decrypt_block(aes, Chunk(input, i))
        /\ \A i \in 0..(idx - 1) :
              \A j \in (0..(idx - 1)) \ DependsOn(pc, i) :
                  Chunk(RunMode(pc, aes, OtherBlock(input, j), ModeInit(pc), 0), i)
                      = Chunk(data, i)

\* C26 witness: cfb_decrypt has written three blocks, the third of which
\* does not change with the first block of the ciphertext.
BlockIndependenceDone ==
    /\ harness = "main" /\ pc = "cfb_decrypt" /\ idx = 3 /\ idx = NumChunks(data)
    /\ phase = 2 /\ 0 \notin DependsOn(pc, 2)

\* C27: for every block size b in 1..255 add_padding(d, b) appends
\* N = b - (len(d) mod b) bytes of value N, and remove_padding on what it
\* left succeeds and restores d.
PaddingAnyBlockSize ==
    harness = "pad" /\ block_size >= 1 /\ block_size <= 255 =>
        /\ pc = "padded" =>
              LET N == block_size - (Len(arg) % block_size)
              IN /\ Len(data) = Len(arg) + N
                 /\ SubSeq(data, 1, Len(arg)) = arg
                 /\ \A k \in (Len(arg) + 1)..Len(data) : data[k] = N
        /\ phase = 2 /\ pc = "done" => result = "Ok" /\ data = msg

\* C28: remove_padding that returns an error leaves the buffer as it was
\* passed in; bytes go only when it returns Ok, and then exactly the last L
\* of them, L being the last byte.
RemovePaddingFrame ==
    harness = "pad" /\ pc = "done" =>
        /\ result # "Ok" => data = arg
        /\ result = "Ok" =>
              /\ Len(arg) > 0
              /\ Len(data) = Len(arg) - arg[Len(arg)]
              /\ data = SubSeq(arg, 1, Len(data))

\* C28 witness: a buffer ending in 2 after another byte was rejected by the
\* loop over the padding bytes and is still whole.
RemovePaddingRejectedWhole ==
    /\ harness = "pad" /\ pc = "done" /\ result = "InvalidBlockSize"
    /\ Len(arg) >= 2 /\ arg[Len(arg)] = 2 /\ arg[Len(arg) - 1] # 2
    /\ data = arg

\* C29: ctr_encrypt_with_nonce, for every block size of 1 or more, every nonce
\* and every plaintext, returns Ok or an Err and never fails an arithmetic or
\* indexing precondition; it returns Err(EncryptionError) whenever the nonce
\* has more than block_size - 4 bytes.
NonceNeverPanics ==
    harness = "nonce" /\ block_size >= 1 /\ pc = "done" =>
        /\ result # "panic"
        /\ Len(iv) > block_size - 4 => result = "EncryptionError"

\* C30: every pass of key_expansion stays within expanded_key[0..175] and
\* RCON[1..10]; every add_round_key of encrypt_block and decrypt_block has a
\* round in 0..10 and indices round * 16 + i + 4 * j in 0..175, and XORs
\* state[i][j] with the byte that bytes_to_state and state_to_bytes put at
\* flat position i + 4 * j.
IndexRanges ==
    harness = "rounds" =>
        /\ pc = "key_expansion" /\ idx < EXPANDED_KEY_SIZE =>
              /\ key_expansion_indices(idx) \subseteq 0..(EXPANDED_KEY_SIZE - 1)
              /\ key_expansion_rcon_indices(idx) \subseteq 1..NUM_ROUNDS
              /\ key_expansion_rcon_indices(idx) \subseteq 0..(Len(RCON) - 1)
        /\ pc = "bytes_to_state" =>
              /\ Len(aes) = EXPANDED_KEY_SIZE /\ aes = Aes_new(key)
              /\ state_to_bytes(bytes_to_state(data)) = data
              /\ \A i, j \in 0..3 : bytes_to_state(data)[i + 1][j + 1] = data[i + 4 * j + 1]
        /\ pc = "steps" =>
              \A k \in 1..Len(chain) :
                  chain[k][1] = "add_round_key" =>
                      LET round == chain[k][2]
                      IN /\ round \in 0..NUM_ROUNDS
                         /\ \A i, j \in 0..3 :
                               add_round_key_index(round, i, j)
                                   \in 0..(EXPANDED_KEY_SIZE - 1)
        /\ pc = "steps" /\ ENABLED RoundsStep =>
              LET sched == IF decrypt THEN DecryptSchedule ELSE EncryptSchedule
                  next == sched[idx + 1]
                  after == ApplyStep(aes, arg, next)
              IN next[1] = "add_round_key" =>
                    \A i, j \in 0..3 :
                        /\ after[i + 1][j + 1] =
                              Xor(arg[i + 1][j + 1],
                                  aes[add_round_key_index(next[2], i, j) + 1])
                        /\ state_to_bytes(after)[i + 4 * j + 1] = after[i + 1][j + 1]

\* C30 witness: the last call of decrypt_block, add_round_key with round 0, is
\* done after encrypt_block's with round 10.
IndexRangesDone ==
    /\ harness = "rounds" /\ decrypt /\ pc = "steps" /\ idx = 40
    /\ chain[idx] = << "add_round_key", 0 >> /\ aes = Aes_new(key)

=============================================================================
